---- MODULE Spec2Model ----
(***************************************************************************)
(* A model of calibre's metadata storage backend, src/calibre/db/backend.py *)
(* Two parts of the backend are modelled, each under its own specification: *)
(*   SpecPrefs : the preference store DBPrefs (in-memory mirror, the        *)
(*               preferences table, the JSON backup file)                   *)
(*   SpecPath  : the on-disk library (directories and files) together with  *)
(*               the persisted path / format-stem fields, driven by         *)
(*               update_path, add_format, remove_format and remove_books    *)
(* Text (keys, names, raw JSON) is a sequence of tokens, so that the code's *)
(* string operations (concatenation, "':' in key", lower-casing, slicing)   *)
(* are computed rather than assumed.  The model is of the POSIX build       *)
(* (iswindows = False, so WindowsAtomicFolderMove is never constructed);    *)
(* the file system may be case sensitive or not.                            *)
(***************************************************************************)
EXTENDS Integers, Sequences, FiniteSets, TLC

VARIABLES
    mirror,           \* DBPrefs: the dict itself, key -> Python value
    table,            \* the preferences table, key -> raw JSON text
    disable_setting,  \* DBPrefs.disable_setting
    backup,           \* metadata_db_prefs_backup.json: [state, data (key -> raw)]
    plast,            \* the last DBPrefs call and how it ended
    title,            \* book id -> title field of the record
    author,           \* book id -> author field of the record
    dbPath,           \* book id -> persisted path field (sequence of segments)
    dbFmt,            \* book id -> (format -> persisted file-name stem)
    dirs,             \* directories on disk: key path -> name as stored on disk
    files,            \* files on disk: <<key path of directory, key of file name>> -> name on disk
    is_case_sensitive,\* DB.is_case_sensitive
    permanentChoice,  \* the permanence flag the caller has chosen for the library
    ops,              \* number of backend calls made so far
    last,             \* the last backend call and how it ended
    user_cats,        \* initialize_prefs: the user_categories dict, in iteration order
    user_categories,  \* the persisted 'user_categories' preference
    cats_changed,     \* initialize_prefs: cats_changed
    clast,            \* the last run of the user category repair and how it ended
    user_version,     \* pragma user_version of metadata.db
    sqlite_master,    \* the tables, indexes, triggers and views metadata.db holds
    custom_columns,   \* rows of the custom_columns table, by id
    delete_trg,       \* tables the temp trigger custom_books_delete_trg deletes from
    custom_column_label_map, \* DB.custom_column_label_map: label -> id
    custom_column_num_map,   \* DB.custom_column_num_map: the ids it holds
    field_metadata,   \* labels of the custom fields in DB.field_metadata
    FIELD_MAP,        \* DB.FIELD_MAP: field key -> slot
    iterOrder,        \* the order in which a dict of labels is iterated
    sops,             \* number of schema operations made so far
    slast,            \* the last schema operation and how it ended
    adapt_in,         \* adapt_text: the raw input x and d['is_multiple']
    adapt_out,        \* adapt_text: what it returned
    dest_data,        \* add_format: the content of the destination file
    stream_in,        \* add_format: the stream it is given
    add_ret,          \* add_format: what it returned
    library_id,       \* rows of the library_id table: the uuids it holds
    library_id_cache, \* DB._library_id_ of the open session (NoUuid: not set)
    uuid4,            \* the value the next call of uuid.uuid4() returns
    llast,            \* the last library_id call and how it ended
    name_in,          \* the (book_id, title, author) construct_path_name is called with
    name_out,         \* what the call gave
    cover_file,       \* cover.jpg of the record on disk
    cover_call,       \* the call of set_cover or copy_cover_to and the failures it meets
    cover_pc,         \* where the call stands
    cover_log,        \* the outcome of every attempt at the file operation
    cover_ret,        \* what the call gave: its return value and the bytes in dest
    race_db,          \* the persisted path and stem of the record
    race_dirs,        \* the directories on disk
    race_files,       \* the format files on disk, <<directory, stem>>
    race_pc,          \* where each thread stands in update_path
    race_local,       \* the locals of each thread: current_path, source_ok
    race_hist         \* overlap: two calls have run at the same time; start: the path persisted at first

prefVars == <<mirror, table, disable_setting, backup, plast>>
pathVars == <<title, author, dbPath, dbFmt, dirs, files, is_case_sensitive,
              permanentChoice, ops, last>>
catVars == <<user_cats, user_categories, cats_changed, clast>>
schemaVars == <<user_version, sqlite_master, custom_columns, delete_trg,
                custom_column_label_map, custom_column_num_map, field_metadata,
                FIELD_MAP, iterOrder, sops, slast>>
adaptVars == <<adapt_in, adapt_out>>
streamVars == <<dest_data, stream_in, add_ret>>
libVars == <<library_id, library_id_cache, uuid4, llast>>
nameVars == <<name_in, name_out>>
coverVars == <<cover_file, cover_call, cover_pc, cover_log, cover_ret>>
raceVars == <<race_db, race_dirs, race_files, race_pc, race_local, race_hist>>
lateVars == <<libVars, nameVars, coverVars, raceVars>>
openVars == <<catVars, schemaVars, adaptVars, streamVars, lateVars>>
vars == <<mirror, table, disable_setting, backup, plast, title, author, dbPath,
          dbFmt, dirs, files, is_case_sensitive, permanentChoice, ops, last,
          user_cats, user_categories, cats_changed, clast,
          user_version, sqlite_master, custom_columns, delete_trg,
          custom_column_label_map, custom_column_num_map, field_metadata,
          FIELD_MAP, iterOrder, sops, slast,
          adapt_in, adapt_out, dest_data, stream_in, add_ret,
          library_id, library_id_cache, uuid4, llast,
          name_in, name_out,
          cover_file, cover_call, cover_pc, cover_log, cover_ret,
          race_db, race_dirs, race_files, race_pc, race_local, race_hist>>

\* the value of a variable that a specification leaves alone
Idle == <<>>

(***************************************************************************)
(* Finite maps                                                             *)
(***************************************************************************)
EmptyMap == [x \in {} |-> x]

Put(f, k, v) == [x \in (DOMAIN f) \cup {k} |-> IF x = k THEN v ELSE f[x]]

Remove(f, k) == [x \in (DOMAIN f) \ {k} |-> f[x]]

(***************************************************************************)
(*                              DBPrefs                                    *)
(***************************************************************************)

\* Python values a caller may store, written as token sequences:
\*   [1], (1,), {1: 1}, {'1': 1}, and an object json cannot serialize.
PyValues ==
    { <<"[", "1", "]">>,
      <<"(", "1", ")">>,
      <<"{", "k:1", "1", "}">>,
      <<"{", "k:'1'", "1", "}">>,
      <<"<object>">> }

\* json.dumps raises TypeError (through default=to_json) on such a value
Serializable(val) == \A i \in DOMAIN val : val[i] # "<object>"

\* values that JSON represents faithfully: no tuple, no non-string dict key
JSONRepresentable(val) ==
    \A i \in DOMAIN val : val[i] \notin {"(", ")", "k:1", "<object>"}

DumpTok(t) ==
    CASE t = "(" -> "["
      [] t = ")" -> "]"
      [] t = "k:1" -> "\"1\":"
      [] t = "k:'1'" -> "\"1\":"
      [] OTHER -> t

LoadTok(t) ==
    CASE t = "\"1\":" -> "k:'1'"
      [] OTHER -> t

JsonTokens == {"1", "[", "]", "{", "}", "\"1\":"}

\* DBPrefs.to_raw: json.dumps
to_raw(val) == [i \in DOMAIN val |-> DumpTok(val[i])]

Parseable(raw) == \A i \in DOMAIN raw : raw[i] \in JsonTokens

\* (a variant that hands the raw text back undecoded)
RawUndecoded(raw) == raw

\* DBPrefs.raw_to_object: json.loads
raw_to_object(raw) == [i \in DOMAIN raw |-> LoadTok(raw[i])]

\* DBPrefs.__init__: rows that fail to parse are skipped
LoadPrefs(tbl) ==
    [k \in {x \in DOMAIN tbl : Parseable(tbl[x])} |-> raw_to_object(tbl[k])]

\* u'namespaced:%s:%s' % (namespace, key)
NamespacedKey(namespace, key) == <<"namespaced", ":">> \o namespace \o <<":">> \o key

HasColon(s) == \E i \in DOMAIN s : s[i] = ":"

Namespaces == { <<"n">>, <<"n", ":", "k">> }
NsKeys == { <<"y">>, <<"k", ":", "y">> }
PlainKeys == { NamespacedKey(<<"n">>, <<"k", ":", "y">>) }

NoValue == <<>>

\* dict.get(key, default)
DictGet(m, key, default) == IF key \in DOMAIN m THEN m[key] ELSE default

\* a call of the store: key is the key of the store it is about, args the
\* <<namespace, key>> given to a namespaced call
PCall(op, args, key, val, outcome, ret) ==
    [op |-> op, args |-> args, key |-> key, val |-> val, outcome |-> outcome, ret |-> ret]

\* DBPrefs.__init__ on a library whose preferences table is empty
NewPrefs ==
    [mirror |-> EmptyMap, table |-> EmptyMap, disable_setting |-> FALSE,
     backup |-> [state |-> "missing", data |-> EmptyMap],
     plast |-> PCall("open", <<>>, NoValue, NoValue, "ok", NoValue)]

\* (a variant that updates the mirror before the table)
SetItemMirrorFirst(m, tbl, disabled, key, val, dbFails) ==
    IF disabled THEN <<m, tbl, "ok">>
    ELSE IF ~Serializable(val) THEN <<Put(m, key, val), tbl, "raised">>
    ELSE IF dbFails THEN <<Put(m, key, val), tbl, "raised">>
    ELSE <<Put(m, key, val), Put(tbl, key, to_raw(val)), "ok">>

\* DBPrefs.__setitem__ as a function of the store: <<mirror, table, outcome>>
SetItem(m, tbl, disabled, key, val, dbFails) ==
    IF disabled THEN <<m, tbl, "ok">>
    ELSE IF ~Serializable(val) THEN <<m, tbl, "raised">>
    ELSE IF dbFails THEN <<m, tbl, "raised">>
    ELSE <<Put(m, key, val), Put(tbl, key, to_raw(val)), "ok">>

\* prefs.set(key, val) / prefs[key] = val
PSet(key, val, dbFails) ==
    \E r \in {SetItem(mirror, table, disable_setting, key, val, dbFails)} :
    /\ mirror' = r[1]
    /\ table' = r[2]
    /\ plast' = PCall("set", <<>>, key, val, r[3], NoValue)
    /\ UNCHANGED <<disable_setting, backup, title, author, dbPath, dbFmt, dirs, files,
                   is_case_sensitive, permanentChoice, ops, last, openVars>>

\* (a variant that checks the key alone)
KeyRejected(namespace, key) == HasColon(key)

\* the checks of set_namespaced: TRUE when the call is rejected with KeyError
NamespaceRejected(namespace, key) == HasColon(key) \/ HasColon(namespace)

PSetNamespaced(namespace, key, val, dbFails) ==
    IF NamespaceRejected(namespace, key)
    THEN /\ plast' = PCall("set_namespaced", <<namespace, key>>,
                           NamespacedKey(namespace, key), val, "raised", NoValue)
         /\ UNCHANGED <<mirror, table, disable_setting, backup, title, author, dbPath, dbFmt, dirs, files,
                   is_case_sensitive, permanentChoice, ops, last, openVars>>
    ELSE \E k \in {NamespacedKey(namespace, key)} :
         \E r \in {SetItem(mirror, table, disable_setting, k, val, dbFails)} :
         /\ mirror' = r[1]
         /\ table' = r[2]
         /\ plast' = PCall("set_namespaced", <<namespace, key>>, k, val, r[3], NoValue)
         /\ UNCHANGED <<disable_setting, backup, title, author, dbPath, dbFmt, dirs, files,
                   is_case_sensitive, permanentChoice, ops, last, openVars>>

\* get_namespaced has no check of its arguments: it looks the composed key up
PGetNamespaced(namespace, key, default) ==
    LET k == NamespacedKey(namespace, key) IN
    /\ plast' = PCall("get_namespaced", <<namespace, key>>, k, NoValue, "ok",
                      DictGet(mirror, k, default))
    /\ UNCHANGED <<mirror, table, disable_setting, backup, title, author, dbPath, dbFmt, dirs, files,
                   is_case_sensitive, permanentChoice, ops, last, openVars>>

\* DBPrefs.__delitem__ as a function of the store: the mirror is changed first
DelItem(m, tbl, key, dbFails) ==
    IF key \notin DOMAIN m THEN <<m, tbl, "raised">>
    ELSE IF dbFails THEN <<Remove(m, key), tbl, "raised">>
    ELSE <<Remove(m, key), Remove(tbl, key), "ok">>

PDel(key, dbFails) ==
    \E r \in {DelItem(mirror, table, key, dbFails)} :
    /\ mirror' = r[1]
    /\ table' = r[2]
    /\ plast' = PCall("delete", <<>>, key, NoValue, r[3], NoValue)
    /\ UNCHANGED <<disable_setting, backup, title, author, dbPath, dbFmt, dirs, files,
                   is_case_sensitive, permanentChoice, ops, last, openVars>>

\* write_serialized: every failure is caught and printed
WriteOutcome(io) == "ok"

PWriteSerialized(io) ==
    /\ backup' = CASE io = "none" -> [state |-> "good",
                                      data |-> [k \in DOMAIN mirror |-> to_raw(mirror[k])]]
                   [] io = "open" -> backup       \* open() failed: the file is as it was
                   [] io = "write" -> [state |-> "corrupt", data |-> EmptyMap]  \* truncated
    /\ plast' = PCall("write_serialized", <<>>, NoValue, NoValue, WriteOutcome(io), NoValue)
    /\ UNCHANGED <<mirror, table, disable_setting, title, author, dbPath, dbFmt, dirs, files,
                   is_case_sensitive, permanentChoice, ops, last, openVars>>

\* read_serialized: the except clause prints the traceback and re-raises.
\* With recreate_prefs the classmethod calls cls.clear() on the class itself,
\* which is a TypeError before anything is changed.
ReadOutcome(file, recreate_prefs) ==
    IF file.state \in {"missing", "corrupt"} THEN "raised"
    ELSE IF ~recreate_prefs THEN "ok"
    ELSE "raised"

PReadSerialized(recreate_prefs) ==
    /\ plast' = PCall("read_serialized", <<>>, NoValue, NoValue,
                      ReadOutcome(backup, recreate_prefs), NoValue)
    /\ UNCHANGED <<mirror, table, disable_setting, backup, title, author, dbPath, dbFmt, dirs, files,
                   is_case_sensitive, permanentChoice, ops, last, openVars>>

\* the library is opened again: a fresh DBPrefs is built from the table
PReopen ==
    /\ mirror' = LoadPrefs(table)
    /\ disable_setting' = FALSE
    /\ plast' = PCall("open", <<>>, NoValue, NoValue, "ok", NoValue)
    /\ UNCHANGED <<table, backup, title, author, dbPath, dbFmt, dirs, files,
                   is_case_sensitive, permanentChoice, ops, last, openVars>>

\* a user of the store switches disable_setting
PSetDisable(flag) ==
    /\ disable_setting # flag
    /\ disable_setting' = flag
    /\ plast' = PCall("disable_setting", <<>>, NoValue, NoValue, "ok", NoValue)
    /\ UNCHANGED <<mirror, table, backup, title, author, dbPath, dbFmt, dirs, files,
                   is_case_sensitive, permanentChoice, ops, last, openVars>>

NextPrefs ==
    \/ \E k \in PlainKeys, v \in PyValues, f \in BOOLEAN : PSet(k, v, f)
    \/ \E n \in Namespaces, k \in NsKeys, v \in PyValues, f \in BOOLEAN :
           PSetNamespaced(n, k, v, f)
    \/ \E n \in Namespaces, k \in NsKeys : PGetNamespaced(n, k, NoValue)
    \/ \E k \in PlainKeys \cup {NamespacedKey(<<"n">>, <<"y">>)}, f \in BOOLEAN : PDel(k, f)
    \/ \E io \in {"none", "open", "write"} : PWriteSerialized(io)
    \/ \E r \in BOOLEAN : PReadSerialized(r)
    \/ PReopen
    \/ \E b \in BOOLEAN : PSetDisable(b)

(***************************************************************************)
(*                 Names, paths and the file system                        *)
(***************************************************************************)
MaxBooks == 2
MaxOps == 3

Books == 1..MaxBooks

PATH_LIMIT == 100

\* titles and authors the records take (one character tokens)
Titles == { <<"a">>, <<"A">>, <<"b">> }
Authors == { <<"a">>, <<"A">>, <<"b">> }

Formats == {"EPUB", "MOBI"}
FormatOrder == <<"EPUB", "MOBI">>

\* unicode.lower() on one character
LowerChar(c) == IF c = "A" THEN "a" ELSE c

Lower(s) == [i \in DOMAIN s |-> LowerChar(s[i])]

\* fmt.lower() on a format tag
LowerFmt(fmt) == IF fmt = "EPUB" THEN "epub" ELSE "mobi"

\* calibre.utils.filenames.ascii_filename: every character outside ASCII, and
\* every character a file name cannot hold, is replaced
AsciiChar(c) == IF c \in {"/", ":", "?"} THEN "_" ELSE c

ascii_filename(s) == [i \in DOMAIN s |-> AsciiChar(s[i])]

\* s[:n]
Truncate(s, n) == SubSeq(s, 1, IF Len(s) < n THEN Len(s) ELSE n)

\* '%d' % book_id
IdTok(book_id) == ToString(book_id)

\* while author[-1] in (' ', '.'): author = author[:-1]
\* author[-1] on the empty string is an IndexError: [ok |-> FALSE]
RECURSIVE StripAuthor(_)
StripAuthor(a) ==
    IF Len(a) = 0 THEN [ok |-> FALSE, value |-> a]
    ELSE IF a[Len(a)] \in {" ", "."} THEN StripAuthor(SubSeq(a, 1, Len(a) - 1))
    ELSE [ok |-> TRUE, value |-> a]

UnknownAuthor == <<"U", "n", "k", "n", "o", "w", "n">>

\* DB.construct_path_name: [ok, path]; the path is its sequence of '/' separated segments
construct_path_name(book_id, t, a) ==
    LET a1 == Truncate(ascii_filename(a), PATH_LIMIT)
        t1 == Truncate(ascii_filename(t), PATH_LIMIT)
        a2 == StripAuthor(a1)
        a3 == IF Len(a2.value) = 0 THEN ascii_filename(UnknownAuthor) ELSE a2.value
    IN  IF ~a2.ok THEN [ok |-> FALSE, path |-> <<>>]
        ELSE [ok |-> TRUE, path |-> <<a3, t1 \o <<" ", "(", IdTok(book_id), ")">>>>]

\* while name.endswith('.'): name = name[:-1]
RECURSIVE StripDots(_)
StripDots(name) ==
    IF Len(name) > 0 /\ name[Len(name)] = "."
    THEN StripDots(SubSeq(name, 1, Len(name) - 1))
    ELSE name

\* DB.construct_file_name
construct_file_name(book_id, t, a) ==
    LET a1 == Truncate(ascii_filename(a), PATH_LIMIT)
        t1 == Truncate(ascii_filename(t), PATH_LIMIT)
    IN  StripDots(t1 \o <<" ", "-", " ">> \o a1)

\* How the file system identifies a name: as written, or without regard to case
Key(s) == IF is_case_sensitive THEN s ELSE Lower(s)

PathKey(p) == [i \in DOMAIN p |-> Key(p[i])]

FileName(stem, ext) == [stem |-> stem, ext |-> ext]

FileKey(n) == [stem |-> Key(n.stem), ext |-> n.ext]

CoverName == FileName(<<"cover">>, "jpg")

\* A file system value: [dirs, files]
FS(d, f) == [dirs |-> d, files |-> f]

\* os.path.exists on a directory below the library; the library itself exists
DirExists(F, p) == p = <<>> \/ PathKey(p) \in DOMAIN F.dirs

FileExists(F, p, n) == <<PathKey(p), FileKey(n)>> \in DOMAIN F.files

\* os.makedirs: every missing component is created under the name given
RECURSIVE MakedirsFrom(_, _, _)
MakedirsFrom(F, p, i) ==
    IF i > Len(p) THEN F
    ELSE LET pre == SubSeq(p, 1, i)
             F1 == IF DirExists(F, pre) THEN F
                   ELSE FS(Put(F.dirs, PathKey(pre), p[i]), F.files)
         IN  MakedirsFrom(F1, p, i + 1)

makedirs(F, p) == MakedirsFrom(F, p, 1)

\* open(dest, 'wb') or a hard link: a new file gets the name given, an
\* existing one keeps the name it has on disk
WriteFile(F, p, n) ==
    IF FileExists(F, p, n) THEN F
    ELSE FS(F.dirs, Put(F.files, <<PathKey(p), FileKey(n)>>, n))

DeleteFile(F, p, n) == FS(F.dirs, Remove(F.files, <<PathKey(p), FileKey(n)>>))

\* os.rename between two names of one file (a change of case)
RenameFile(F, p, n) ==
    FS(F.dirs, [F.files EXCEPT ![<<PathKey(p), FileKey(n)>>] = n])

IsPrefix(p, q) == Len(p) <= Len(q) /\ SubSeq(q, 1, Len(p)) = p

\* (a variant that takes every directory for empty)
DirEmptyUnchecked(F, p) == TRUE

\* os.listdir(p) is empty
DirEmpty(F, p) ==
    /\ p # <<>>      \* the library directory holds metadata.db
    /\ ~\E d \in DOMAIN F.dirs : Len(d) = Len(p) + 1 /\ IsPrefix(PathKey(p), d)
    /\ ~\E f \in DOMAIN F.files : f[1] = PathKey(p)

\* delete_tree
DeleteTree(F, p) ==
    FS([d \in {x \in DOMAIN F.dirs : ~IsPrefix(PathKey(p), x)} |-> F.dirs[d]],
       [f \in {x \in DOMAIN F.files : ~IsPrefix(PathKey(p), x[1])} |-> F.files[f]])

LibraryPath == <<"l", "i", "b">>

\* DB.normpath, on the segments of a path
normpath(segs) == IF is_case_sensitive THEN segs ELSE [i \in DOMAIN segs |-> Lower(segs[i])]

\* (a variant without the test)
RmtreeDeletesAny(p) == TRUE

\* the test of DB.rmtree: TRUE when the tree is deleted. p is relative to the library.
RmtreeDeletes(p) ==
    ~IsPrefix(normpath(<<LibraryPath>> \o p), normpath(<<LibraryPath>>))

\* DB.rmtree: <<file system, set of deletions made>>
rmtree(F, p, permanent) ==
    IF RmtreeDeletes(p)
    THEN <<DeleteTree(F, p), {[path |-> PathKey(p), permanent |-> permanent]}>>
    ELSE <<F, {}>>

(***************************************************************************)
(*                        Format and cover files                           *)
(***************************************************************************)

\* (a variant of the glob that takes every file of the directory)
EveryFile(F, path, ext) == {f \in DOMAIN F.files : f[1] = PathKey(path)}

\* glob.glob(os.path.join(path, '*' + fmt)): the files of the directory with that extension
Candidates(F, path, ext) ==
    {f \in DOMAIN F.files : f[1] = PathKey(path) /\ f[2].ext = ext}

\* DB.format_abspath: [fs, found].  When the named file is missing and the
\* directory holds another file of the same extension, that file is copied to
\* the name asked for.
format_abspath(F, fmt, fname, path) ==
    LET n == FileName(fname, LowerFmt(fmt)) IN
    IF FileExists(F, path, n) THEN [fs |-> F, found |-> TRUE]
    ELSE IF Candidates(F, path, LowerFmt(fmt)) # {}
         THEN [fs |-> WriteFile(F, path, n), found |-> TRUE]
         ELSE [fs |-> F, found |-> FALSE]

\* DB.copy_format_to with dest a path and windows_atomic_move None:
\* [fs, result] with result "True", "False" or "raised".
\*   copyFails   : hardlink_file and the copy that follows it both fail
\*   renameFails : the os.rename that repairs the case of the name fails
copy_format_to(F, fmt, fname, path, destDir, destName, copyFails, renameFails) ==
    LET r == format_abspath(F, fmt, fname, path)
        src == FileName(fname, LowerFmt(fmt))
        samefile == /\ FileExists(r.fs, destDir, destName)
                    /\ PathKey(destDir) = PathKey(path)
                    /\ FileKey(destName) = FileKey(src)
    IN  IF ~r.found THEN [fs |-> r.fs, result |-> "False"]
        ELSE IF samefile
        THEN IF ~is_case_sensitive /\ (path # destDir \/ src # destName) /\ ~renameFails
             THEN [fs |-> RenameFile(r.fs, destDir, destName), result |-> "True"]
             ELSE [fs |-> r.fs, result |-> "True"]
        ELSE IF copyFails THEN [fs |-> r.fs, result |-> "raised"]
        ELSE [fs |-> WriteFile(r.fs, destDir, destName), result |-> "True"]

\* DB.copy_cover_to with dest a path and windows_atomic_move None
copy_cover_to(F, path, destDir, copyFails) ==
    IF ~FileExists(F, path, CoverName) THEN [fs |-> F, result |-> "False"]
    ELSE IF PathKey(destDir) = PathKey(path) THEN [fs |-> F, result |-> "False"]
    ELSE IF copyFails THEN [fs |-> F, result |-> "raised"]
    ELSE [fs |-> WriteFile(F, destDir, CoverName), result |-> "True"]

\* formats_field.for_book(book_id), in the order they are visited
FormatsOf(fmts) == SelectSeq(FormatOrder, LAMBDA f : f \in DOMAIN fmts)

(***************************************************************************)
(*                            update_path                                  *)
(***************************************************************************)

\* (a variant that takes any named format for a changed one)
ChangedAnyNamed(stems, fname) ==
    \E fmt \in DOMAIN stems : stems[fmt] # <<>>

\* lines 1109-1114: has the stem of some format changed
Changed(stems, fname) ==
    \E fmt \in DOMAIN stems : stems[fmt] # <<>> /\ stems[fmt] # fname

\* (a variant in which the call never returns at once)
NeverFastExit(path, current_path, stems, fname) == FALSE

\* line 1115: the call returns at once
FastExit(path, current_path, stems, fname) ==
    path = current_path /\ ~Changed(stems, fname)

\* (a variant of the loop that copies nothing and reports no failure)
CopyFormatsSkipped(F, order, i, stems, current_path, tpath, fname, failAt, renameFails) ==
    [fs |-> F, raised |-> FALSE, missing |-> FALSE]

\* lines 1130-1133: the formats are copied in turn; a copy that raises ends the
\* loop, a copy that returns False does not.  [fs, raised, missing]
RECURSIVE CopyFormats(_, _, _, _, _, _, _, _, _)
CopyFormats(F, order, i, stems, current_path, tpath, fname, failAt, renameFails) ==
    IF i > Len(order) THEN [fs |-> F, raised |-> FALSE, missing |-> FALSE]
    ELSE LET fmt == order[i]
             r == copy_format_to(F, fmt, stems[fmt], current_path, tpath,
                                 FileName(fname, LowerFmt(fmt)), failAt = fmt, renameFails)
         IN  IF r.result = "raised"
             THEN [fs |-> r.fs, raised |-> TRUE, missing |-> FALSE]
             ELSE LET rest == CopyFormats(r.fs, order, i + 1, stems, current_path,
                                          tpath, fname, failAt, renameFails)
                  IN  [rest EXCEPT !.missing = @ \/ r.result = "False"]

\* (a variant that leaves the formats table as it is)
StemsKept(stems, fname) == stems

\* lines 1135-1136: the stems written to the formats table
NewStems(stems, fname) == [fmt \in DOMAIN stems |-> fname]

\* the flag update_path gives rmtree (lines 1144, 1147)
UpdatePathPermanent(chosen) == TRUE

\* lines 1140-1147: [fs, dels]
DeleteSource(F, source_ok, spath, tpath) ==
    IF source_ok /\ DirExists(F, spath) /\ PathKey(spath) # PathKey(tpath)
    THEN LET r1 == rmtree(F, spath, UpdatePathPermanent(permanentChoice))
             parent == SubSeq(spath, 1, Len(spath) - 1)
         IN  IF DirEmpty(r1[1], parent)
             THEN LET r2 == rmtree(r1[1], parent, UpdatePathPermanent(permanentChoice))
                  IN  [fs |-> r2[1], dels |-> r1[2] \cup r2[2]]
             ELSE [fs |-> r1[1], dels |-> r1[2]]
    ELSE [fs |-> F, dels |-> {}]

\* lines 1152-1170: segments that differ only by case are renamed in place;
\* a rename that fails ends the loop.  segFail names the segment whose rename fails.
RECURSIVE RenameSegments(_, _, _, _, _)
RenameSegments(F, c1, c2, i, segFail) ==
    IF i > Len(c1) THEN F
    ELSE IF Lower(c1[i]) = Lower(c2[i]) /\ c1[i] # c2[i]
    THEN LET old == SubSeq(c2, 1, i - 1) \o <<c1[i]>> IN
         IF segFail = i \/ ~DirExists(F, old) THEN F
         ELSE RenameSegments(FS([F.dirs EXCEPT ![PathKey(old)] = c2[i]], F.files),
                             c1, c2, i + 1, segFail)
    ELSE RenameSegments(F, c1, c2, i + 1, segFail)

\* (a variant that leaves the segments as they are)
CaseRenameSkipped(F, current_path, path, segFail) == F

CaseRename(F, current_path, path, segFail) ==
    IF ~is_case_sensitive /\ Len(current_path) = Len(path)
    THEN RenameSegments(F, current_path, path, 1, segFail)
    ELSE F

\* what a call leaves: the file system, the persisted path and stems, how the
\* call ended, how the copies went, the writes made to the books and data
\* tables, and the directories deleted
UpdateResult(F, path, stems, outcome, copy, dbWrites, dels) ==
    [fs |-> F, path |-> path, stems |-> stems, outcome |-> outcome,
     copy |-> copy, dbWrites |-> dbWrites, dels |-> dels]

\* DB.update_path(book_id, title, author, path_field, formats_field) as a function
\* of the file system and the record's persisted fields.
\*   failAt      : "none", "cover", a format (that copy raises) or "db" (set_path raises)
\*   renameFails : a rename of a file to its new case fails (it is ignored)
\*   segFail     : the segment whose rename fails in the final loop (0: none)
update_path(F, book_id, t, a, current_path, stems, failAt, renameFails, segFail) ==
    LET cpn == construct_path_name(book_id, t, a)
        path == cpn.path
        fname == construct_file_name(book_id, t, a)
        spath == current_path
        tpath == path
        source_ok == current_path # <<>> /\ DirExists(F, spath)
        F1 == IF DirExists(F, tpath) THEN F ELSE makedirs(F, tpath)
        cov == IF source_ok THEN copy_cover_to(F1, current_path, tpath, failAt = "cover")
               ELSE [fs |-> F1, result |-> "False"]
        cf == IF source_ok
              THEN CopyFormats(cov.fs, FormatsOf(stems), 1, stems, current_path, tpath,
                               fname, failAt, renameFails)
              ELSE [fs |-> cov.fs, raised |-> FALSE, missing |-> FALSE]
        del == DeleteSource(cf.fs, source_ok, spath, tpath)
        F4 == CaseRename(del.fs, current_path, path, segFail)
        nfmt == Cardinality(DOMAIN stems)
    IN  IF ~cpn.ok THEN UpdateResult(F, current_path, stems, "raised", "none", 0, {})
        ELSE IF FastExit(path, current_path, stems, fname)
        THEN UpdateResult(F, current_path, stems, "fast", "none", 0, {})
        ELSE IF cov.result = "raised"
        THEN UpdateResult(cov.fs, current_path, stems, "raised", "raised", 0, {})
        ELSE IF cf.raised
        THEN UpdateResult(cf.fs, current_path, stems, "raised", "raised", 0, {})
        ELSE IF failAt = "db"
        THEN UpdateResult(cf.fs, current_path, NewStems(stems, fname), "raised",
                          IF cf.missing THEN "missing" ELSE "ok", nfmt, {})
        ELSE UpdateResult(F4, path, NewStems(stems, fname), "ok",
                          IF cf.missing THEN "missing" ELSE "ok", nfmt + 1, del.dels)

(***************************************************************************)
(*                      The library and its operations                     *)
(***************************************************************************)
Live == DOMAIN dbPath

Call(op, books, outcome, copy, dbWrites, dels) ==
    [op |-> op, books |-> books, outcome |-> outcome, copy |-> copy,
     dbWrites |-> dbWrites, dels |-> dels]

\* The record with the highest id has just been inserted: its path field is
\* still empty and it has neither directory nor formats.  The others have been
\* synced: each has its directory, its cover and one format file under the
\* names computed from its title and author.
NewBook == MaxBooks

RECURSIVE InitialFS(_, _, _, _)
InitialFS(F, b, t, a) ==
    IF b >= NewBook THEN F
    ELSE LET path == construct_path_name(b, t[b], a[b]).path
             F1 == makedirs(F, path)
             F2 == WriteFile(F1, path, CoverName)
             F3 == WriteFile(F2, path,
                             FileName(construct_file_name(b, t[b], a[b]), LowerFmt("EPUB")))
         IN  InitialFS(F3, b + 1, t, a)

\* The library when it is opened
InitPath ==
    /\ mirror = NewPrefs.mirror
    /\ table = NewPrefs.table
    /\ disable_setting = NewPrefs.disable_setting
    /\ backup = NewPrefs.backup
    /\ plast = NewPrefs.plast
    /\ is_case_sensitive \in BOOLEAN
    /\ permanentChoice \in BOOLEAN
    /\ title = [b \in Books |-> <<"a">>]
    /\ author = [b \in Books |-> <<"a">>]
    /\ dbPath = [b \in Books |-> IF b = NewBook THEN <<>>
                                  ELSE construct_path_name(b, title[b], author[b]).path]
    /\ dbFmt = [b \in Books |->
                   IF b = NewBook THEN EmptyMap
                   ELSE [f \in {"EPUB"} |-> construct_file_name(b, title[b], author[b])]]
    /\ LET F == InitialFS(FS(EmptyMap, EmptyMap), 1, title, author) IN
       /\ dirs = F.dirs
       /\ files = F.files
    /\ ops = 0
    /\ last = Call("open", {}, "ok", "none", 0, {})
    /\ user_cats = Idle
    /\ user_categories = Idle
    /\ cats_changed = Idle
    /\ clast = Idle
    /\ user_version = Idle
    /\ sqlite_master = Idle
    /\ custom_columns = Idle
    /\ delete_trg = Idle
    /\ custom_column_label_map = Idle
    /\ custom_column_num_map = Idle
    /\ field_metadata = Idle
    /\ FIELD_MAP = Idle
    /\ iterOrder = Idle
    /\ sops = Idle
    /\ slast = Idle
    /\ adapt_in = Idle
    /\ adapt_out = Idle
    /\ dest_data = Idle
    /\ stream_in = Idle
    /\ add_ret = Idle
    /\ library_id = Idle
    /\ library_id_cache = Idle
    /\ uuid4 = Idle
    /\ llast = Idle
    /\ name_in = Idle
    /\ name_out = Idle
    /\ cover_file = Idle
    /\ cover_call = Idle
    /\ cover_pc = Idle
    /\ cover_log = Idle
    /\ cover_ret = Idle
    /\ race_db = Idle
    /\ race_dirs = Idle
    /\ race_files = Idle
    /\ race_pc = Idle
    /\ race_local = Idle
    /\ race_hist = Idle

\* the title and author fields of a record are edited
SetMetadata(b, t, a) ==
    /\ ops < MaxOps
    /\ b \in Live
    /\ (t # title[b]) # (a # author[b])      \* one field is edited at a time
    /\ title' = [title EXCEPT ![b] = t]
    /\ author' = [author EXCEPT ![b] = a]
    /\ ops' = ops + 1
    /\ last' = Call("set_metadata", {b}, "ok", "none", 1, {})
    /\ UNCHANGED <<dbPath, dbFmt, dirs, files, is_case_sensitive, permanentChoice,
                   mirror, table, disable_setting, backup, plast, openVars>>

UpdatePath(b, failAt, renameFails, segFail) ==
    /\ ops < MaxOps
    /\ b \in Live
    /\ \E r \in {update_path(FS(dirs, files), b, title[b], author[b], dbPath[b],
                            dbFmt[b], failAt, renameFails, segFail)} :
       /\ dirs' = r.fs.dirs
       /\ files' = r.fs.files
       /\ dbPath' = [dbPath EXCEPT ![b] = r.path]
       /\ dbFmt' = [dbFmt EXCEPT ![b] = r.stems]
       /\ last' = Call("update_path", {b}, r.outcome, r.copy, r.dbWrites, r.dels)
    /\ ops' = ops + 1
    /\ UNCHANGED <<title, author, is_case_sensitive, permanentChoice,
                   mirror, table, disable_setting, backup, plast, openVars>>

\* DB.add_format, followed by the write of the returned stem to the formats table.
\* streamIsDest: the stream given is the destination file itself.
add_format(F, book_id, fmt, streamIsDest, t, a, path) ==
    LET fname == construct_file_name(book_id, t, a)
        dest == FileName(fname, LowerFmt(fmt))
        F1 == IF DirExists(F, path) THEN F ELSE makedirs(F, path)
    IN  [fs |-> IF streamIsDest THEN F1 ELSE WriteFile(F1, path, dest), fname |-> fname]

AddFormat(b, fmt, streamIsDest) ==
    /\ ops < MaxOps
    /\ b \in Live
    /\ streamIsDest =>
           FileExists(FS(dirs, files), dbPath[b],
                      FileName(construct_file_name(b, title[b], author[b]), LowerFmt(fmt)))
    /\ \E r \in {add_format(FS(dirs, files), b, fmt, streamIsDest, title[b], author[b],
                           dbPath[b])} :
       /\ dirs' = r.fs.dirs
       /\ files' = r.fs.files
       /\ dbFmt' = [dbFmt EXCEPT ![b] = Put(@, fmt, r.fname)]
    /\ ops' = ops + 1
    /\ last' = Call("add_format", {b}, "ok", "none", 1, {})
    /\ UNCHANGED <<title, author, dbPath, is_case_sensitive, permanentChoice,
                   mirror, table, disable_setting, backup, plast, openVars>>

\* (a variant that deletes nothing)
remove_format_keeps(F, fmt, fname, path, delFails) == format_abspath(F, fmt, fname, path).fs

\* DB.remove_format: the file is deleted; a failure of delete_file is printed
remove_format(F, fmt, fname, path, delFails) ==
    LET r == format_abspath(F, fmt, fname, path) IN
    IF r.found /\ ~delFails
    THEN DeleteFile(r.fs, path, FileName(fname, LowerFmt(fmt)))
    ELSE r.fs

RemoveFormat(b, fmt, delFails) ==
    /\ ops < MaxOps
    /\ b \in Live
    /\ fmt \in DOMAIN dbFmt[b]
    /\ \E F \in {remove_format(FS(dirs, files), fmt, dbFmt[b][fmt], dbPath[b], delFails)} :
       /\ dirs' = F.dirs
       /\ files' = F.files
    /\ ops' = ops + 1
    /\ last' = Call("remove_format", {b}, "ok", "none", 0, {})
    /\ UNCHANGED <<title, author, dbPath, dbFmt, is_case_sensitive, permanentChoice,
                   mirror, table, disable_setting, backup, plast, openVars>>

\* (a variant that always deletes for good)
RemoveBooksAlwaysPermanent(permanent) == TRUE

\* the flag remove_books gives rmtree (lines 1187, 1190)
RemoveBooksPermanent(permanent) == permanent

\* lines 1183-1190, for the books of path_map in turn: [fs, dels]
RECURSIVE RemoveDirs(_, _, _, _)
RemoveDirs(F, ids, path_map, permanent) ==
    IF ids = {} THEN [fs |-> F, dels |-> {}]
    ELSE LET b == CHOOSE x \in ids : \A y \in ids : x <= y
             path == path_map[b]
             one == IF path # <<>> /\ DirExists(F, path)
                    THEN LET r1 == rmtree(F, path, RemoveBooksPermanent(permanent))
                             parent == SubSeq(path, 1, Len(path) - 1)
                         IN  IF DirEmpty(r1[1], parent)
                             THEN LET r2 == rmtree(r1[1], parent,
                                                   RemoveBooksPermanent(permanent))
                                  IN  [fs |-> r2[1], dels |-> r1[2] \cup r2[2]]
                             ELSE [fs |-> r1[1], dels |-> r1[2]]
                    ELSE [fs |-> F, dels |-> {}]
             rest == RemoveDirs(one.fs, ids \ {b}, path_map, permanent)
         IN  [fs |-> rest.fs, dels |-> one.dels \cup rest.dels]

\* DB.remove_books(path_map, permanent), path_map holding the persisted paths
RemoveBooks(ids) ==
    /\ ops < MaxOps
    /\ ids # {}
    /\ ids \subseteq Live
    /\ \E r \in {RemoveDirs(FS(dirs, files), ids, dbPath, permanentChoice)} :
       /\ dirs' = r.fs.dirs
       /\ files' = r.fs.files
       /\ last' = Call("remove_books", ids, "ok", "none", Cardinality(ids), r.dels)
    /\ title' = [b \in Live \ ids |-> title[b]]
    /\ author' = [b \in Live \ ids |-> author[b]]
    /\ dbPath' = [b \in Live \ ids |-> dbPath[b]]
    /\ dbFmt' = [b \in Live \ ids |-> dbFmt[b]]
    /\ ops' = ops + 1
    /\ UNCHANGED <<is_case_sensitive, permanentChoice,
                   mirror, table, disable_setting, backup, plast, openVars>>

FailPoints == {"none", "cover", "db"} \cup Formats

\* renames happen on a case insensitive file system only
RenameFailures == IF is_case_sensitive THEN {FALSE} ELSE BOOLEAN

SegmentFailures == IF is_case_sensitive THEN {0} ELSE 0..2

\* DB.format_hash: [fs, outcome]; the digest itself is not modelled
format_hash(F, fmt, fname, path) ==
    LET r == format_abspath(F, fmt, fname, path)
    IN  [fs |-> r.fs, outcome |-> IF r.found THEN "ok" ELSE "NoSuchFormat"]

\* DB.has_format: [fs, ret]
has_format(F, fmt, fname, path) ==
    LET r == format_abspath(F, fmt, fname, path) IN [fs |-> r.fs, ret |-> r.found]

\* DB.format_metadata: [fs, ans], ans the keys of the dict it returns
format_metadata(F, fmt, fname, path) ==
    LET r == format_abspath(F, fmt, fname, path)
    IN  [fs |-> r.fs, ans |-> IF r.found THEN {"path", "size", "mtime"} ELSE {}]

\* the call of format_hash for a format the record references
HashCall(b, fmt, outcome) ==
    [op |-> "format_hash", books |-> {b}, outcome |-> outcome, copy |-> "none",
     dbWrites |-> 0, dels |-> {}, fmt |-> fmt]

FormatHash(b, fmt) ==
    /\ ops < MaxOps
    /\ b \in Live
    /\ fmt \in DOMAIN dbFmt[b]
    /\ \E r \in {format_hash(FS(dirs, files), fmt, dbFmt[b][fmt], dbPath[b])} :
       /\ dirs' = r.fs.dirs
       /\ files' = r.fs.files
       /\ last' = HashCall(b, fmt, r.outcome)
    /\ ops' = ops + 1
    /\ UNCHANGED <<title, author, dbPath, dbFmt, is_case_sensitive, permanentChoice,
                   mirror, table, disable_setting, backup, plast, openVars>>

NextPath ==
    \/ \E b \in Books, t \in Titles, a \in Authors : SetMetadata(b, t, a)
    \/ \E b \in Books, failAt \in FailPoints, renameFails \in RenameFailures,
           segFail \in SegmentFailures :
           UpdatePath(b, failAt, renameFails, segFail)
    \/ \E b \in Books, fmt \in Formats, same \in BOOLEAN : AddFormat(b, fmt, same)
    \/ \E b \in Books, fmt \in Formats, delFails \in BOOLEAN : RemoveFormat(b, fmt, delFails)
    \/ \E ids \in SUBSET Books : RemoveBooks(ids)
    \/ \E b \in Books, fmt \in Formats : FormatHash(b, fmt)

(***************************************************************************)
(*                           Specifications                                *)
(***************************************************************************)

\* The preference store of a library whose records are left alone
InitPrefs ==
    /\ mirror = NewPrefs.mirror
    /\ table = NewPrefs.table
    /\ disable_setting = NewPrefs.disable_setting
    /\ backup = NewPrefs.backup
    /\ plast = NewPrefs.plast
    /\ is_case_sensitive = TRUE
    /\ permanentChoice = FALSE
    /\ title = EmptyMap
    /\ author = EmptyMap
    /\ dbPath = EmptyMap
    /\ dbFmt = EmptyMap
    /\ dirs = EmptyMap
    /\ files = EmptyMap
    /\ ops = 0
    /\ last = Call("open", {}, "ok", "none", 0, {})
    /\ user_cats = Idle
    /\ user_categories = Idle
    /\ cats_changed = Idle
    /\ clast = Idle
    /\ user_version = Idle
    /\ sqlite_master = Idle
    /\ custom_columns = Idle
    /\ delete_trg = Idle
    /\ custom_column_label_map = Idle
    /\ custom_column_num_map = Idle
    /\ field_metadata = Idle
    /\ FIELD_MAP = Idle
    /\ iterOrder = Idle
    /\ sops = Idle
    /\ slast = Idle
    /\ adapt_in = Idle
    /\ adapt_out = Idle
    /\ dest_data = Idle
    /\ stream_in = Idle
    /\ add_ret = Idle
    /\ library_id = Idle
    /\ library_id_cache = Idle
    /\ uuid4 = Idle
    /\ llast = Idle
    /\ name_in = Idle
    /\ name_out = Idle
    /\ cover_file = Idle
    /\ cover_call = Idle
    /\ cover_pc = Idle
    /\ cover_log = Idle
    /\ cover_ret = Idle
    /\ race_db = Idle
    /\ race_dirs = Idle
    /\ race_files = Idle
    /\ race_pc = Idle
    /\ race_local = Idle
    /\ race_hist = Idle

Init == InitPath

Next == NextPrefs \/ NextPath

SpecPrefs == InitPrefs /\ [][NextPrefs]_vars

SpecPath == InitPath /\ [][NextPath]_vars

Spec == Init /\ [][Next]_vars

(***************************************************************************)
(*                      Properties of update_path                          *)
(***************************************************************************)

\* the record's persisted path and stems are the ones computed from its fields
Synced(b) ==
    \E c \in {construct_path_name(b, title[b], author[b])} :
        /\ c.ok
        /\ dbPath[b] = c.path
        /\ \/ DOMAIN dbFmt[b] = {}
           \/ \E fname \in {construct_file_name(b, title[b], author[b])} :
                  \A fmt \in DOMAIN dbFmt[b] : dbFmt[b][fmt] = fname

\* the files a directory holds
FilesIn(f, p) == {x \in DOMAIN f : x[1] = PathKey(p)}

\* C1: if the copy of the cover or of a format fails during update_path (it
\* raises, or copy_format_to returns False because the file is missing), the
\* source directory still exists with all its files and the persisted path and
\* stems are unchanged.
C1_CopyFailureLeavesRecordUnchanged ==
    [][\A b \in Live :
          (last'.op = "update_path" /\ last'.books = {b}
             /\ last'.copy \in {"raised", "missing"})
          => /\ PathKey(dbPath[b]) \in DOMAIN dirs'
             /\ FilesIn(files, dbPath[b]) \subseteq DOMAIN files'
             /\ dbPath'[b] = dbPath[b]
             /\ dbFmt'[b] = dbFmt[b]]_vars

\* C2: update_path on a record that is already synced, and update_path called
\* again directly after a call that returned, writes neither to the file
\* system nor to the database.
C2_SyncedUpdateWritesNothing ==
    [][\A b \in Live :
          (/\ last'.op = "update_path"
           /\ last'.books = {b}
           /\ \/ Synced(b)
              \/ last.op = "update_path" /\ last.books = {b}
                      /\ last.outcome \in {"ok", "fast"})
          => /\ dirs' = dirs
             /\ files' = files
             /\ dbPath' = dbPath
             /\ dbFmt' = dbFmt
             /\ last'.dbWrites = 0
             /\ last'.outcome # "raised"]_vars

\* a record that was moved, and for which update_path was then called again
C2_Witness ==
    /\ last.op = "update_path"
    /\ last.outcome = "fast"
    /\ \E b \in Live : last.books = {b} /\ Synced(b) /\ title[b] # <<"a">> /\ ops = 3

\* C3: when update_path returns without raising the record is synced, and a
\* synced record stays synced until its title or author is edited.
C3_ReturnMeansSynced ==
    [][/\ \A b \in Live :
             (last'.op = "update_path" /\ last'.books = {b}
                /\ last'.outcome \in {"ok", "fast"}) => Synced(b)'
       /\ \A b \in Live \cap DOMAIN dbPath' :
             \/ title'[b] # title[b]
             \/ author'[b] # author[b]
             \/ dbPath'[b] = dbPath[b] /\ dbFmt'[b] = dbFmt[b]   \* nothing of b changed
             \/ Synced(b) => Synced(b)'
      ]_vars

\* update_path has returned for a record that has a format and had no
\* directory (its persisted path was empty): path and stem have been written
C3_Witness ==
    /\ last.op = "update_path"
    /\ last.outcome = "ok"
    /\ last.books = {NewBook}
    /\ NewBook \in Live
    /\ DOMAIN dbFmt[NewBook] # {}
    /\ last.dels = {}
    /\ last.dbWrites >= 2
    /\ Synced(NewBook)

\* the file of a format can be found in the directory: format_abspath is not None
FormatAvailable(f, p, fmt) == \E x \in FilesIn(f, p) : x[2].ext = LowerFmt(fmt)

Parent(p) == SubSeq(p, 1, Len(p) - 1)

\* C4: when update_path moves a record from an existing source directory to a
\* different target directory, the target then holds the cover and every
\* format file under the new stem, the source tree is gone, and the source's
\* parent is gone exactly when nothing is left in it.
C4_MoveCopiesThenDeletesSource ==
    [][\A b \in Live :
          (/\ last'.op = "update_path"
           /\ last'.books = {b}
           /\ last'.outcome = "ok"
           /\ dbPath[b] # <<>>
           /\ PathKey(dbPath[b]) \in DOMAIN dirs
           /\ PathKey(dbPath[b]) # PathKey(dbPath'[b]))
          => LET sp == dbPath[b]
                 tp == dbPath'[b]
                 stem == construct_file_name(b, title[b], author[b])
             IN  /\ PathKey(tp) \in DOMAIN dirs'
                 /\ <<PathKey(sp), FileKey(CoverName)>> \in DOMAIN files
                       => <<PathKey(tp), FileKey(CoverName)>> \in DOMAIN files'
                 /\ \A fmt \in DOMAIN dbFmt[b] :
                       FormatAvailable(files, sp, fmt)
                       => <<PathKey(tp), FileKey(FileName(stem, LowerFmt(fmt)))>>
                              \in DOMAIN files'
                 /\ ~\E d \in DOMAIN dirs' : IsPrefix(PathKey(sp), d)
                 /\ ~\E f \in DOMAIN files' : IsPrefix(PathKey(sp), f[1])
                 /\ (PathKey(Parent(sp)) \in DOMAIN dirs')
                       <=> (\E d \in DOMAIN dirs' :
                               Len(d) = 2 /\ IsPrefix(PathKey(Parent(sp)), d))
                 /\ \A d \in DOMAIN dirs :
                       (Len(d) = 2 /\ d # PathKey(sp)) => d \in DOMAIN dirs'
      ]_vars

\* a record was moved out of an author directory, which was then deleted too
C4_Witness ==
    /\ last.op = "update_path"
    /\ last.outcome = "ok"
    /\ last.copy = "ok"
    /\ Cardinality(last.dels) = 2

\* C5 (as claimed): with the reversible deletion chosen, neither update_path
\* nor remove_books deletes a directory permanently.
C5_NoPermanentDeletionWhenReversibleChosen ==
    ~permanentChoice => \A d \in last.dels : ~d.permanent

\* C5 (amended): remove_books deletes with the flag its caller chose;
\* update_path deletes the source directory and its emptied parent permanently,
\* whatever was chosen.
C5_RemoveBooksHonoursFlag ==
    \A d \in last.dels :
        /\ last.op = "remove_books" => d.permanent = permanentChoice
        /\ last.op = "update_path" => d.permanent

\* remove_books has deleted a directory in a library with reversible deletion
C5_Witness ==
    /\ last.op = "remove_books"
    /\ ~permanentChoice
    /\ last.dels # {}

(***************************************************************************)
(*                        Properties of DBPrefs                            *)
(***************************************************************************)
IsSet(c) == c.op \in {"set", "set_namespaced"}

\* C6 (as claimed): a set that fails leaves the mirror as it was, and a set
\* that returns normally has put the new value in the table and in the mirror.
C6_SetPersistsBeforeMirror ==
    [][IsSet(plast')
         => /\ plast'.outcome = "raised" => (mirror' = mirror /\ table' = table)
            /\ plast'.outcome = "ok"
                 => /\ plast'.key \in DOMAIN table' \cap DOMAIN mirror'
                    /\ table'[plast'.key] = to_raw(plast'.val)
                    /\ mirror'[plast'.key] = plast'.val]_vars

\* C6 (amended): a set that fails leaves the mirror and the table as they were;
\* a set that returns normally while disable_setting is off has put the new
\* value in the table and in the mirror; while disable_setting is on it
\* returns normally and changes neither.
C6_SetPersistsUnlessDisabled ==
    [][IsSet(plast')
         => /\ plast'.outcome = "raised" => (mirror' = mirror /\ table' = table)
            /\ (plast'.outcome = "ok" /\ ~disable_setting)
                 => /\ plast'.key \in DOMAIN table' \cap DOMAIN mirror'
                    /\ table'[plast'.key] = to_raw(plast'.val)
                    /\ mirror'[plast'.key] = plast'.val
            /\ (plast'.outcome = "ok" /\ disable_setting)
                 => (mirror' = mirror /\ table' = table)]_vars

\* a set of a key that has a value has failed, and the mirror holds that value still
C6_Witness ==
    /\ plast.op = "set"
    /\ plast.outcome = "raised"
    /\ plast.key \in DOMAIN mirror
    /\ Serializable(plast.val)
    /\ mirror[plast.key] # plast.val

\* C7: after every call the mirror and the preferences table hold the same
\* keys with the same values.
C7_MirrorEqualsTable ==
    /\ DOMAIN mirror = DOMAIN table
    /\ \A k \in DOMAIN mirror : to_raw(mirror[k]) = table[k]

\* C8 (as claimed): once set(k, v) has returned for a JSON-representable v, a
\* DBPrefs loaded afresh from the table gives v for k.
C8_SetThenReloadGivesValue ==
    (plast.op = "set" /\ plast.outcome = "ok" /\ JSONRepresentable(plast.val))
    => DictGet(LoadPrefs(table), plast.key, NoValue) = plast.val

\* C8 (amended): the same, for a set made while disable_setting is off.
C8_SetThenReloadUnlessDisabled ==
    (plast.op = "set" /\ plast.outcome = "ok" /\ JSONRepresentable(plast.val)
        /\ ~disable_setting)
    => DictGet(LoadPrefs(table), plast.key, NoValue) = plast.val

\* a dict with a string key has been set over another value
C8_Witness ==
    /\ plast.op = "set"
    /\ plast.outcome = "ok"
    /\ ~disable_setting
    /\ plast.val = <<"{", "k:'1'", "1", "}">>
    /\ table[plast.key] = to_raw(plast.val)

ArgsHaveColon(c) == HasColon(c.args[1]) \/ HasColon(c.args[2])

\* C9 (as claimed): get_namespaced and set_namespaced both reject a key or a
\* namespace that holds ':', and the rejected call changes nothing.
C9_BothRejectColons ==
    [][(plast'.op \in {"get_namespaced", "set_namespaced"} /\ ArgsHaveColon(plast'))
         => (plast'.outcome = "raised" /\ mirror' = mirror /\ table' = table)]_vars

\* C9 (amended): set_namespaced rejects a key or a namespace that holds ':' and
\* then changes nothing; get_namespaced checks nothing: it never raises, gives
\* the value stored under namespaced:<namespace>:<key> or the default, and
\* changes nothing.
C9_OnlySetRejectsColons ==
    [][/\ (plast'.op = "set_namespaced" /\ ArgsHaveColon(plast'))
            => (plast'.outcome = "raised" /\ mirror' = mirror /\ table' = table)
       /\ plast'.op = "get_namespaced"
            => /\ plast'.outcome = "ok"
               /\ plast'.ret = DictGet(mirror,
                                       NamespacedKey(plast'.args[1], plast'.args[2]),
                                       NoValue)
               /\ mirror' = mirror
               /\ table' = table]_vars

\* a set_namespaced with ':' in the namespace only has been rejected on a store
\* that holds values
C9_Witness ==
    /\ plast.op = "set_namespaced"
    /\ HasColon(plast.args[1])
    /\ ~HasColon(plast.args[2])
    /\ plast.outcome = "raised"
    /\ mirror # EmptyMap

\* C10: write_serialized and read_serialized never raise.
C10_SnapshotsNeverRaise ==
    plast.op \in {"write_serialized", "read_serialized"} => plast.outcome = "ok"

(***************************************************************************)
(*      initialize_prefs: user categories whose names differ in case       *)
(***************************************************************************)
MaxCats == 3
MaxSuffix == 12

\* calibre.utils.icu.lower, on the letters and digits of a category name
icu_lower(s) == [i \in DOMAIN s |-> LowerChar(s[i])]

\* unicode(suffix): the decimal digits of a positive integer
RECURSIVE Digits(_)
Digits(n) == IF n < 10 THEN <<ToString(n)>> ELSE Digits(n \div 10) \o <<ToString(n % 10)>>

\* names a user may have given to categories
CatNames ==
    { <<"a">>, <<"A">>, <<"a", "1">>, <<"A", "1">>,
      <<"a", "a">>, <<"A", "a">>, <<"A", "A">> }

\* a dict of user categories in the order it is iterated: each category is
\* [name, value], the value standing for the items the category holds
CatDict(names) == [i \in DOMAIN names |-> [name |-> names[i], value |-> names[i]]]

NoRepeat(q) == \A i, j \in DOMAIN q : i # j => q[i] # q[j]

SmallDicts ==
    { CatDict(q) : q \in { r \in UNION { [1..n -> CatNames] : n \in 1..MaxCats } : NoRepeat(r) } }

\* a, A, a1, A1 and a2 .. a10: the suffixes 1 .. 10 of 'a' are all taken
ManyNames ==
    << <<"a">>, <<"A">>, <<"a", "1">>, <<"A", "1">> >>
       \o [i \in 1..9 |-> <<"a">> \o Digits(i + 1)]

CatDicts == SmallDicts \cup {CatDict(ManyNames)}

NamesOf(cats) == {cats[i].name : i \in DOMAIN cats}

\* the dict as a mapping, for comparison and for json
AsMap(cats) ==
    [n \in NamesOf(cats) |-> (CHOOSE c \in {cats[i] : i \in DOMAIN cats} : c.name = n).value]

\* lines 502-507: the keys of catmap
CatmapKeys(cats) == {icu_lower(n) : n \in NamesOf(cats)}

\* lines 502-507: catmap[ucl], the names with that lower-cased form in iteration order
Catmap(cats, ucl) == SelectSeq([i \in DOMAIN cats |-> cats[i].name], LAMBDA n : icu_lower(n) = ucl)

\* the keys of catmap that hold more than one name (line 510)
Overlaps(cats) == {k \in CatmapKeys(cats) : Len(Catmap(cats, k)) > 1}

\* lines 513-515: the first suffix for which icu_lower(cat + suffix) is not a key of catmap
FirstSuffix(cat, keys) ==
    CHOOSE n \in 1..MaxSuffix :
        /\ icu_lower(cat \o Digits(n)) \notin keys
        /\ \A m \in 1..(n - 1) : icu_lower(cat \o Digits(m)) \in keys

\* user_cats[new] = user_cats[cat]; del user_cats[cat]  (lines 517-518)
RenameCat(cats, cat, new) ==
    LET value == AsMap(cats)[cat]
        put == IF new \in NamesOf(cats)
               THEN [i \in DOMAIN cats |->
                        IF cats[i].name = new THEN [name |-> new, value |-> value]
                        ELSE cats[i]]
               ELSE Append(cats, [name |-> new, value |-> value])
    IN  SelectSeq(put, LAMBDA c : c.name # cat)

\* lines 509-519, the overlapping keys of catmap taken in the order given:
\* [cats, renames], each rename with the names the dict held when it was made
RECURSIVE RepairOverlaps(_, _, _, _)
RepairOverlaps(cats, original, order, renames) ==
    IF order = <<>> THEN [cats |-> cats, renames |-> renames]
    ELSE LET cat == Catmap(original, Head(order))[1]
             new == cat \o Digits(FirstSuffix(cat, CatmapKeys(original)))
         IN  RepairOverlaps(RenameCat(cats, cat, new), original, Tail(order),
                            renames \cup {[old |-> cat, new |-> new,
                                           present |-> NamesOf(cats)]})

\* the orders in which "for uc in catmap" may reach the overlapping keys
OverlapOrders(cats) ==
    {q \in [1..Cardinality(Overlaps(cats)) -> Overlaps(cats)] : NoRepeat(q)}

CatCall(op, outcome, renames) == [op |-> op, outcome |-> outcome, renames |-> renames]

\* DB.initialize_prefs, lines 501-522; the INSERT of prefs.set may fail
RepairUserCategories(order, dbFails) ==
    /\ clast.op = "loaded"
    /\ order \in OverlapOrders(user_cats)
    /\ \E r \in {RepairOverlaps(user_cats, user_cats, order, {})} :
       /\ user_cats' = r.cats
       /\ cats_changed' = (r.renames # {})
       /\ IF r.renames = {}
          THEN /\ user_categories' = user_categories
               /\ clast' = CatCall("repair", "ok", {})
          ELSE IF dbFails
          THEN /\ user_categories' = user_categories
               /\ clast' = CatCall("repair", "raised", r.renames)
          ELSE /\ user_categories' = AsMap(r.cats)
               /\ clast' = CatCall("repair", "ok", r.renames)
    /\ UNCHANGED <<prefVars, pathVars, schemaVars, adaptVars, streamVars, lateVars>>

\* the library is opened again: DBPrefs reads the preference (lines 66-77, 502);
\* the order of the dict read is any order of its names (dicts of up to
\* MaxCats + 1 names are read again)
ReloadUserCategories ==
    /\ clast.op = "repair"
    /\ Cardinality(DOMAIN user_categories) <= MaxCats + 1
    /\ \E q \in {r \in [1..Cardinality(DOMAIN user_categories) -> DOMAIN user_categories] :
                    NoRepeat(r)} :
           user_cats' = [i \in DOMAIN q |-> [name |-> q[i], value |-> user_categories[q[i]]]]
    /\ cats_changed' = FALSE
    /\ clast' = CatCall("loaded", "ok", {})
    /\ UNCHANGED <<user_categories, prefVars, pathVars, schemaVars, adaptVars, streamVars, lateVars>>

NextCats ==
    \/ \E order \in OverlapOrders(user_cats), dbFails \in BOOLEAN :
           RepairUserCategories(order, dbFails)
    \/ ReloadUserCategories

\* A library whose user categories have been migrated is opened
InitCats ==
    /\ user_cats \in CatDicts
    /\ user_categories = AsMap(user_cats)
    /\ cats_changed = FALSE
    /\ clast = CatCall("loaded", "ok", {})
    /\ mirror = NewPrefs.mirror
    /\ table = NewPrefs.table
    /\ disable_setting = NewPrefs.disable_setting
    /\ backup = NewPrefs.backup
    /\ plast = NewPrefs.plast
    /\ is_case_sensitive = TRUE
    /\ permanentChoice = FALSE
    /\ title = EmptyMap
    /\ author = EmptyMap
    /\ dbPath = EmptyMap
    /\ dbFmt = EmptyMap
    /\ dirs = EmptyMap
    /\ files = EmptyMap
    /\ ops = 0
    /\ last = Call("open", {}, "ok", "none", 0, {})
    /\ user_version = Idle
    /\ sqlite_master = Idle
    /\ custom_columns = Idle
    /\ delete_trg = Idle
    /\ custom_column_label_map = Idle
    /\ custom_column_num_map = Idle
    /\ field_metadata = Idle
    /\ FIELD_MAP = Idle
    /\ iterOrder = Idle
    /\ sops = Idle
    /\ slast = Idle
    /\ adapt_in = Idle
    /\ adapt_out = Idle
    /\ dest_data = Idle
    /\ stream_in = Idle
    /\ add_ret = Idle
    /\ library_id = Idle
    /\ library_id_cache = Idle
    /\ uuid4 = Idle
    /\ llast = Idle
    /\ name_in = Idle
    /\ name_out = Idle
    /\ cover_file = Idle
    /\ cover_call = Idle
    /\ cover_pc = Idle
    /\ cover_log = Idle
    /\ cover_ret = Idle
    /\ race_db = Idle
    /\ race_dirs = Idle
    /\ race_files = Idle
    /\ race_pc = Idle
    /\ race_local = Idle
    /\ race_hist = Idle

SpecCats == InitCats /\ [][NextCats]_vars

(***************************************************************************)
(*               Properties of the user category repair                    *)
(***************************************************************************)

\* no two names of the dict are equal when case is disregarded
NoCaseOverlap(cats) == Overlaps(cats) = {}

\* C11: after the repair, in every group of names that collided the first name
\* is still there, every other name of the group has been renamed away, no two
\* names are equal when case is disregarded, and when a rename was made the
\* dict has been persisted to the user_categories preference.
C11_RepairRenamesAllButFirst ==
    [][(clast'.op = "repair" /\ clast'.outcome = "ok")
         => /\ \A k \in Overlaps(user_cats) :
                  \A i \in DOMAIN Catmap(user_cats, k) :
                      (Catmap(user_cats, k)[i] \in NamesOf(user_cats')) <=> (i = 1)
            /\ NoCaseOverlap(user_cats')
            /\ cats_changed' => user_categories' = AsMap(user_cats')]_vars

\* C12: every rename of the repair gives old_name + n, n being the smallest
\* positive integer for which old_name + n is not, case disregarded, a name the
\* dict holds at that moment; the repair keeps the number of categories and
\* the value of each.
C12_RenameTakesSmallestFreeSuffix ==
    [][(clast'.op = "repair" /\ clast'.outcome = "ok")
         => /\ \A r \in clast'.renames :
                  \E n \in 1..MaxSuffix :
                      /\ r.new = r.old \o Digits(n)
                      /\ icu_lower(r.new) \notin {icu_lower(p) : p \in r.present}
                      /\ \A m \in 1..(n - 1) :
                             icu_lower(r.old \o Digits(m)) \in {icu_lower(p) : p \in r.present}
            /\ Len(user_cats') = Len(user_cats)
            /\ {c.value : c \in {user_cats'[i] : i \in DOMAIN user_cats'}}
                   = {c.value : c \in {user_cats[i] : i \in DOMAIN user_cats}}]_vars

(***************************************************************************)
(*     The schema: initialize_database, custom columns and FIELD_MAP       *)
(***************************************************************************)
MaxSchemaOps == 3

\* labels of custom columns, and their order as strings
Labels == {"a", "b", "c"}

LabelRank(l) == CASE l = "a" -> 1 [] l = "b" -> 2 [] OTHER -> 3

\* Orders in which a dict with these labels as keys is iterated: the sorted
\* one, and the one of CPython 2.7 (64 bit), where hash(label) & 7 is 0 for
\* 'a', 3 for 'b' and 2 for 'c'.
IterOrders == { <<"a", "b", "c">>, <<"a", "c", "b">> }

\* for k in d: the keys of a dict in its iteration order
DictOrder(order, keys) == SelectSeq(order, LAMBDA l : l \in keys)

\* the kinds of custom column: [datatype, normalized]
ColumnKinds ==
    { [datatype |-> "text", normalized |-> TRUE],
      [datatype |-> "series", normalized |-> TRUE],
      [datatype |-> "comments", normalized |-> FALSE] }

\* an object of sqlite_master; of column num, or of the baseline schema (0)
Obj(kind, num) == [kind |-> kind, num |-> num]

\* the tables the baseline script metadata_sqlite.sql creates
Baseline == Obj("baseline", 0)

\* DB.custom_table_names
custom_table_names(num) == <<Obj("table", num), Obj("lt", num)>>

\* DB.custom_tables: the custom column tables found in sqlite_master
custom_tables(master) == {o \in master : o.kind \in {"table", "lt"}}

\* what the creation of a custom column puts in the database
ColumnObjects(num, normalized) ==
    {Obj("table", num), Obj("index", num), Obj("view", num)}
        \cup (IF normalized THEN {Obj("lt", num), Obj("trigger", num)} ELSE {})

\* DB.initialize_database: [master, user_version]
initialize_database(master, version, scriptFails) ==
    LET m == IF scriptFails THEN master ELSE master \cup {Baseline}
    IN  [master |-> m, user_version |-> IF version = 0 THEN 1 ELSE version]

\* the ids of the rows marked for deletion (line 529)
Marked(rows) == {n \in DOMAIN rows : rows[n].mark_for_delete}

\* (a variant that drops the tables of the column and nothing else)
DroppedTablesOnly(o, num) == o.num = num /\ o.kind \in {"table", "lt"}

\* lines 531-547: the indexes, triggers, views and tables of the column are dropped
Dropped(o, num) ==
    o.num = num /\ o.kind \in {"index", "trigger", "view", "table", "lt"}

\* lines 526-548, one transaction: [master, rows, raised]
PurgeMarked(master, rows, dropFails) ==
    IF dropFails /\ Marked(rows) # {}
    THEN [master |-> master, rows |-> rows, raised |-> TRUE]
    ELSE [master |-> {o \in master : \A n \in Marked(rows) : ~Dropped(o, n)},
          rows |-> [n \in (DOMAIN rows) \ Marked(rows) |-> rows[n]],
          raised |-> FALSE]

\* (a variant that looks for the value table only)
ValueTableMissing(master, rows, n) == custom_table_names(n)[1] \notin custom_tables(master)

\* lines 582-585: a table of the column is missing
TablesMissing(master, rows, n) ==
    \/ custom_table_names(n)[1] \notin custom_tables(master)
    \/ rows[n].normalized /\ custom_table_names(n)[2] \notin custom_tables(master)

\* lines 591-595: the table the delete trigger of a live column names
TriggerTable(rows, n) ==
    IF rows[n].normalized THEN custom_table_names(n)[2] ELSE custom_table_names(n)[1]

\* DB.initialize_custom_columns:
\* [master, rows, label_map, num_map, delete_trg, field_metadata, purged, removed, raised]
initialize_custom_columns(master, rows, dropFails) ==
    LET p == PurgeMarked(master, rows, dropFails)
        remove == {n \in DOMAIN p.rows : TablesMissing(p.master, p.rows, n)}
        live == (DOMAIN p.rows) \ remove
        lmap == [l \in {p.rows[n].label : n \in live} |->
                    CHOOSE n \in live : p.rows[n].label = l]
    IN  IF p.raised
        THEN [master |-> master, rows |-> rows, label_map |-> <<>>, num_map |-> {},
              delete_trg |-> {}, field_metadata |-> {}, purged |-> {}, removed |-> {},
              raised |-> TRUE]
        ELSE [master |-> p.master,
              rows |-> [n \in live |-> p.rows[n]],
              label_map |-> lmap,
              num_map |-> live,
              delete_trg |-> {TriggerTable(p.rows, n) : n \in live},
              field_metadata |-> DOMAIN lmap,
              purged |-> Marked(rows),
              removed |-> remove,
              raised |-> FALSE]

\* the fields of FIELD_MAP with fixed slots (lines 721-727), slot 0 first
BuiltinFields ==
    << "id", "title", "authors", "timestamp", "size", "rating", "tags", "comments",
       "series", "publisher", "series_index", "sort", "author_sort", "formats",
       "path", "pubdate", "uuid", "cover", "au_map", "last_modified",
       "identifiers", "languages" >>

BuiltinMap ==
    [f \in {BuiltinFields[i] : i \in DOMAIN BuiltinFields} |->
        (CHOOSE i \in DOMAIN BuiltinFields : BuiltinFields[i] = f) - 1]

\* the keys of a custom column in FIELD_MAP: data['num'] and str(data['num'])+'_index'
NumKey(num) == ToString(num)

IndexKey(num) == ToString(num) \o "_index"

\* (a variant that starts from the number of fields)
SlotCount(fm) == Cardinality(DOMAIN fm)

\* base = max(self.FIELD_MAP.itervalues())  (line 732)
MaxSlot(fm) == CHOOSE v \in {fm[k] : k \in DOMAIN fm} : \A k \in DOMAIN fm : fm[k] <= v

\* (a variant that hands out base itself)
SlotAtBase(base) == base

\* base = base+1  (lines 738, 744)
NextSlot(base) == base + 1

\* lines 734-747, the labels of the map in the order given: [fm, base]
RECURSIVE AssignCustom(_, _, _, _, _)
AssignCustom(labels, lmap, rows, fm, base) ==
    IF labels = <<>> THEN [fm |-> fm, base |-> base]
    ELSE LET num == lmap[Head(labels)]
             slot == NextSlot(base)
             fm1 == (NumKey(num) :> slot) @@ fm
         IN  IF rows[num].datatype = "series"
             THEN AssignCustom(Tail(labels), lmap, rows,
                               (IndexKey(num) :> NextSlot(slot)) @@ fm1, NextSlot(slot))
             ELSE AssignCustom(Tail(labels), lmap, rows, fm1, slot)

\* DB.initialize_tables: FIELD_MAP
initialize_tables(lmap, rows, order) ==
    LET c == AssignCustom(DictOrder(order, DOMAIN lmap), lmap, rows, BuiltinMap,
                          MaxSlot(BuiltinMap))
    IN  ("ondevice" :> (c.base + 1)) @@ ("marked" :> (c.base + 2))
            @@ ("series_sort" :> (c.base + 3)) @@ c.fm

\* (before: the labels of the custom fields as they were before the call)
SchemaCall(op, outcome, num, purged, removed, before) ==
    [op |-> op, outcome |-> outcome, num |-> num, purged |-> purged, removed |-> removed,
     before |-> before]

\* DB.__init__, lines 353-386: the library is opened.  A database file whose
\* user_version is 0 is removed and made anew (DB.conn); without the baseline
\* tables the statements that follow initialize_database raise.
OpenLibrary(scriptFails, dropFails) ==
    \E d \in {IF user_version = 0
              THEN initialize_database({}, 0, scriptFails)
              ELSE [master |-> sqlite_master, user_version |-> user_version]} :
       /\ user_version' = d.user_version
       /\ IF Baseline \notin d.master
          THEN /\ sqlite_master' = d.master
               /\ custom_columns' = IF user_version = 0 THEN EmptyMap ELSE custom_columns
               /\ custom_column_label_map' = EmptyMap
               /\ custom_column_num_map' = {}
               /\ delete_trg' = {}
               /\ field_metadata' = {}
               /\ FIELD_MAP' = EmptyMap
               /\ slast' = SchemaCall("open", "raised", 0, {}, {}, {})
          ELSE \E rows \in {IF user_version = 0 THEN EmptyMap ELSE custom_columns} :
               \E c \in {initialize_custom_columns(d.master, rows, dropFails)} :
                  /\ sqlite_master' = c.master
                  /\ custom_columns' = c.rows
                  /\ custom_column_label_map' = c.label_map
                  /\ custom_column_num_map' = c.num_map
                  /\ delete_trg' = c.delete_trg
                  /\ field_metadata' = c.field_metadata
                  /\ FIELD_MAP' = IF c.raised THEN EmptyMap
                                  ELSE initialize_tables(c.label_map, c.rows, iterOrder)
                  /\ slast' = SchemaCall("open", IF c.raised THEN "raised" ELSE "ok", 0,
                                          c.purged, c.removed,
                                          DOMAIN custom_column_label_map)
    /\ UNCHANGED <<iterOrder, sops, prefVars, pathVars, catVars, adaptVars, streamVars, lateVars>>

\* the id a new custom column gets: one no row and no object of the database has
NextNum(rows, master) ==
    LET used == (DOMAIN rows) \cup {o.num : o \in master}
    IN  1 + (CHOOSE m \in used \cup {0} : \A n \in used \cup {0} : n <= m)

\* a custom column is created in the open library: its row and its tables
CreateCustomColumn(label, kind) ==
    /\ sops < MaxSchemaOps
    /\ slast.outcome = "ok"
    /\ Baseline \in sqlite_master
    /\ \A n \in DOMAIN custom_columns : custom_columns[n].label # label
    /\ \E num \in {NextNum(custom_columns, sqlite_master)} :
       /\ custom_columns' = (num :> [label |-> label, datatype |-> kind.datatype,
                                     normalized |-> kind.normalized,
                                     mark_for_delete |-> FALSE]) @@ custom_columns
       /\ sqlite_master' = sqlite_master \cup ColumnObjects(num, kind.normalized)
       /\ slast' = SchemaCall("create", "ok", num, {}, {}, {})
    /\ sops' = sops + 1
    /\ UNCHANGED <<user_version, delete_trg, custom_column_label_map,
                   custom_column_num_map, field_metadata, FIELD_MAP, iterOrder,
                   prefVars, pathVars, catVars, adaptVars, streamVars, lateVars>>

\* a custom column is marked for deletion: mark_for_delete = 1 in its row
MarkForDelete(num) ==
    /\ sops < MaxSchemaOps
    /\ slast.outcome = "ok"
    /\ num \in DOMAIN custom_columns
    /\ ~custom_columns[num].mark_for_delete
    /\ custom_columns' = [custom_columns EXCEPT ![num].mark_for_delete = TRUE]
    /\ slast' = SchemaCall("mark", "ok", num, {}, {}, {})
    /\ sops' = sops + 1
    /\ UNCHANGED <<user_version, sqlite_master, delete_trg, custom_column_label_map,
                   custom_column_num_map, field_metadata, FIELD_MAP, iterOrder,
                   prefVars, pathVars, catVars, adaptVars, streamVars, lateVars>>

\* a table of a custom column is lost from the database file
LoseTable(t) ==
    /\ sops < MaxSchemaOps
    /\ t \in custom_tables(sqlite_master)
    /\ sqlite_master' = sqlite_master \ {t}
    /\ slast' = SchemaCall("lose", slast.outcome, t.num, {}, {}, {})
    /\ sops' = sops + 1
    /\ UNCHANGED <<user_version, custom_columns, delete_trg, custom_column_label_map,
                   custom_column_num_map, field_metadata, FIELD_MAP, iterOrder,
                   prefVars, pathVars, catVars, adaptVars, streamVars, lateVars>>

NextSchema ==
    \/ \E scriptFails \in BOOLEAN, dropFails \in BOOLEAN : OpenLibrary(scriptFails, dropFails)
    \/ \E label \in Labels, kind \in ColumnKinds : CreateCustomColumn(label, kind)
    \/ \E num \in 1..MaxSchemaOps : MarkForDelete(num)
    \/ \E num \in 1..MaxSchemaOps, k \in {"table", "lt"} : LoseTable(Obj(k, num))

\* A library directory in which no metadata.db exists yet
InitSchema ==
    /\ user_version = 0
    /\ sqlite_master = {}
    /\ custom_columns = EmptyMap
    /\ delete_trg = {}
    /\ custom_column_label_map = EmptyMap
    /\ custom_column_num_map = {}
    /\ field_metadata = {}
    /\ FIELD_MAP = EmptyMap
    /\ iterOrder \in IterOrders
    /\ sops = 0
    /\ slast = SchemaCall("none", "none", 0, {}, {}, {})
    /\ mirror = NewPrefs.mirror
    /\ table = NewPrefs.table
    /\ disable_setting = NewPrefs.disable_setting
    /\ backup = NewPrefs.backup
    /\ plast = NewPrefs.plast
    /\ is_case_sensitive = TRUE
    /\ permanentChoice = FALSE
    /\ title = EmptyMap
    /\ author = EmptyMap
    /\ dbPath = EmptyMap
    /\ dbFmt = EmptyMap
    /\ dirs = EmptyMap
    /\ files = EmptyMap
    /\ ops = 0
    /\ last = Call("open", {}, "ok", "none", 0, {})
    /\ user_cats = Idle
    /\ user_categories = Idle
    /\ cats_changed = Idle
    /\ clast = Idle
    /\ adapt_in = Idle
    /\ adapt_out = Idle
    /\ dest_data = Idle
    /\ stream_in = Idle
    /\ add_ret = Idle
    /\ library_id = Idle
    /\ library_id_cache = Idle
    /\ uuid4 = Idle
    /\ llast = Idle
    /\ name_in = Idle
    /\ name_out = Idle
    /\ cover_file = Idle
    /\ cover_call = Idle
    /\ cover_pc = Idle
    /\ cover_log = Idle
    /\ cover_ret = Idle
    /\ race_db = Idle
    /\ race_dirs = Idle
    /\ race_files = Idle
    /\ race_pc = Idle
    /\ race_local = Idle
    /\ race_hist = Idle

SpecSchema == InitSchema /\ [][NextSchema]_vars

(***************************************************************************)
(*                      Properties of the schema                           *)
(***************************************************************************)
OpenedOk(c) == c.op = "open" /\ c.outcome = "ok"

\* the keys FIELD_MAP holds for a custom column
CustomKeys(n) == {NumKey(n), IndexKey(n)}

\* C13: marking a custom column for deletion changes no table, index, trigger
\* or view; when the library is next opened every object of every marked
\* column is dropped and its row deleted, all of it or none of it, and the
\* column is then in none of custom_column_label_map, custom_column_num_map,
\* field_metadata and FIELD_MAP.
C13_MarkedColumnsPurgedAtLoad ==
    [][/\ slast'.op = "mark"
            => /\ sqlite_master' = sqlite_master
               /\ delete_trg' = delete_trg
               /\ DOMAIN custom_columns' = DOMAIN custom_columns
       /\ OpenedOk(slast')
            => \A n \in Marked(custom_columns) :
                  /\ \A o \in sqlite_master' : o.num # n
                  /\ n \notin DOMAIN custom_columns'
                  /\ custom_columns[n].label \notin DOMAIN custom_column_label_map'
                  /\ n \notin custom_column_num_map'
                  /\ custom_columns[n].label \notin field_metadata'
                  /\ CustomKeys(n) \cap DOMAIN FIELD_MAP' = {}
       /\ (slast'.op = "open" /\ slast'.outcome = "raised" /\ Baseline \in sqlite_master)
            => /\ sqlite_master' = sqlite_master
               /\ custom_columns' = custom_columns
      ]_vars

\* the library has been opened and a marked column, with its tables, was purged
C13_Witness ==
    /\ OpenedOk(slast)
    /\ slast.purged # {}
    /\ DOMAIN custom_columns # {}

\* C14: when the library is opened, every row of custom_columns whose value
\* table is missing, or which is normalized and whose link table is missing,
\* is deleted, enters neither map and gets no delete trigger; every row whose
\* tables are there becomes a live field; and the load does not raise.
C14_ColumnsWithoutTablesSwept ==
    [][/\ OpenedOk(slast')
            => \A n \in (DOMAIN custom_columns) \ Marked(custom_columns) :
                  IF \/ Obj("table", n) \notin sqlite_master
                     \/ custom_columns[n].normalized /\ Obj("lt", n) \notin sqlite_master
                  THEN /\ n \notin DOMAIN custom_columns'
                       /\ custom_columns[n].label \notin DOMAIN custom_column_label_map'
                       /\ n \notin custom_column_num_map'
                       /\ {Obj("table", n), Obj("lt", n)} \cap delete_trg' = {}
                       /\ CustomKeys(n) \cap DOMAIN FIELD_MAP' = {}
                  ELSE /\ n \in DOMAIN custom_columns'
                       /\ custom_columns[n].label \in DOMAIN custom_column_label_map'
                       /\ custom_column_label_map'[custom_columns[n].label] = n
                       /\ n \in custom_column_num_map'
                       /\ custom_columns[n].label \in field_metadata'
                       /\ NumKey(n) \in DOMAIN FIELD_MAP'
       /\ (slast'.op = "open" /\ Baseline \in sqlite_master
              /\ Marked(custom_columns) = {})
            => slast'.outcome = "ok"
      ]_vars

\* the library has been opened: a column without its table was swept, another is live
C14_Witness ==
    /\ OpenedOk(slast)
    /\ slast.removed # {}
    /\ custom_column_num_map # {}

\* the slot of the custom column with that label
SlotOf(fm, lmap, label) == fm[NumKey(lmap[label])]

\* C15: in FIELD_MAP the custom columns have slots in the order of their
\* labels, and every custom slot is greater than 21.
C15_CustomSlotsInLabelOrder ==
    /\ \A a, b \in DOMAIN custom_column_label_map :
          LabelRank(a) < LabelRank(b)
             => SlotOf(FIELD_MAP, custom_column_label_map, a)
                   < SlotOf(FIELD_MAP, custom_column_label_map, b)
    /\ \A a \in DOMAIN custom_column_label_map :
          SlotOf(FIELD_MAP, custom_column_label_map, a) > 21

\* the library is opened again with the custom columns it had
SameColumns ==
    /\ FIELD_MAP # EmptyMap
    /\ custom_column_label_map' = custom_column_label_map

\* the library is opened again with one custom column more
OneColumnAdded(l) ==
    /\ FIELD_MAP # EmptyMap
    /\ l \notin DOMAIN custom_column_label_map
    /\ DOMAIN custom_column_label_map' = DOMAIN custom_column_label_map \cup {l}
    /\ \A k \in DOMAIN custom_column_label_map :
           custom_column_label_map'[k] = custom_column_label_map[k]

\* C16 (as claimed): building FIELD_MAP again for the same custom columns gives
\* the same slots; after one custom column is added every other field keeps
\* its slot, and the slot of the new column is greater than 21.
C16_SlotsStable ==
    [][OpenedOk(slast')
         => /\ SameColumns => FIELD_MAP' = FIELD_MAP
            /\ \A l \in Labels :
                  OneColumnAdded(l)
                     => /\ \A k \in DOMAIN FIELD_MAP : FIELD_MAP'[k] = FIELD_MAP[k]
                        /\ SlotOf(FIELD_MAP', custom_column_label_map', l) > 21
      ]_vars

\* C16 (amended): building FIELD_MAP again for the same custom columns gives the
\* same slots; after one custom column is added the 22 fields 'id' ..
\* 'languages' keep their slots 0 .. 21, the slot of the new column is greater
\* than 21, and 'ondevice', 'marked' and 'series_sort' take the three slots
\* that follow the last custom slot, so they move up by the slots the new
\* column takes (two for a series column, else one).
C16_FixedSlotsStable ==
    [][OpenedOk(slast')
         => /\ SameColumns => FIELD_MAP' = FIELD_MAP
            /\ \A l \in Labels :
                  OneColumnAdded(l)
                     => /\ \A k \in DOMAIN BuiltinMap :
                              FIELD_MAP'[k] = FIELD_MAP[k] /\ FIELD_MAP'[k] = BuiltinMap[k]
                        /\ SlotOf(FIELD_MAP', custom_column_label_map', l) > 21
                        /\ \E taken \in {IF custom_columns'[custom_column_label_map'[l]].datatype
                                              = "series" THEN 2 ELSE 1} :
                              /\ FIELD_MAP'["ondevice"] = FIELD_MAP["ondevice"] + taken
                              /\ FIELD_MAP'["marked"] = FIELD_MAP["marked"] + taken
                              /\ FIELD_MAP'["series_sort"] = FIELD_MAP["series_sort"] + taken
                        /\ FIELD_MAP'["marked"] = FIELD_MAP'["ondevice"] + 1
                        /\ FIELD_MAP'["series_sort"] = FIELD_MAP'["ondevice"] + 2
                        /\ \A k \in DOMAIN FIELD_MAP' : FIELD_MAP'[k] <= FIELD_MAP'["series_sort"]
      ]_vars

\* the library has been opened with two custom columns, one of them added
\* since it was last opened
C16_Witness ==
    /\ OpenedOk(slast)
    /\ Cardinality(slast.before) = 1
    /\ Cardinality(DOMAIN custom_column_label_map) = 2
    /\ slast.before \subseteq DOMAIN custom_column_label_map
    /\ FIELD_MAP["ondevice"] >= 24

\* C20: when the baseline script fails in initialize_database, user_version is
\* still 0 afterwards; user_version is non-zero only when the baseline tables
\* have been committed.
C20_BootstrapAllOrNothing ==
    [][/\ (slast'.op = "open" /\ user_version = 0 /\ Baseline \notin sqlite_master')
            => user_version' = 0
       /\ user_version' # 0 => Baseline \in sqlite_master'
      ]_vars

(***************************************************************************)
(*  adapt_text, the adapter of a text custom column with is_multiple set   *)
(*  (lines 616-628).  A string is a sequence of characters; the raw value  *)
(*  is None, a string or a list of strings.  Every character here is      *)
(*  ASCII, so decode(preferred_encoding) leaves the strings as they are.   *)
(***************************************************************************)
MaxLen == 4

TextChars == {"a", " ", ","}

\* d['multiple_seps']['ui_to_list']  (line 576)
ui_to_list == ","

\* the strings of at most n characters
TextsUpTo(n) == UNION {[1..k -> TextChars] : k \in 0..n}

\* raw values: None, a string (val holds it), a list of one string, a list of
\* two short strings
AdaptInputs ==
    {[kind |-> "none", val |-> <<>>]}
      \cup {[kind |-> "str", val |-> <<t>>] : t \in TextsUpTo(MaxLen)}
      \cup {[kind |-> "list", val |-> <<t>>] : t \in TextsUpTo(MaxLen)}
      \cup {[kind |-> "list", val |-> <<t, u>>] : t, u \in TextsUpTo(MaxLen - 2)}

\* str.split(sep)
RECURSIVE split(_, _)
split(t, sep) ==
    IF t = <<>> THEN << <<>> >>
    ELSE LET r == split(Tail(t), sep)
         IN  IF Head(t) = sep THEN << <<>> >> \o r
             ELSE << <<Head(t)>> \o r[1] >> \o Tail(r)

RECURSIVE lstrip(_)
lstrip(t) == IF t # <<>> /\ Head(t) = " " THEN lstrip(Tail(t)) ELSE t

RECURSIVE rstrip(_)
rstrip(t) == IF t # <<>> /\ t[Len(t)] = " " THEN rstrip(SubSeq(t, 1, Len(t) - 1)) ELSE t

\* str.strip()
strip(t) == rstrip(lstrip(t))

\* u' '.join(words)
RECURSIVE join(_)
join(words) ==
    IF words = <<>> THEN <<>>
    ELSE IF Len(words) = 1 THEN words[1]
    ELSE words[1] \o <<" ">> \o join(Tail(words))

\* u' '.join(y.split())  (line 625)
CollapseSpace(t) == join(SelectSeq(split(t, " "), LAMBDA w : w # <<>>))

\* [y.strip() for y in x if y.strip()], then the join of line 625
RECURSIVE CleanEntries(_)
CleanEntries(l) ==
    IF l = <<>> THEN <<>>
    ELSE (IF strip(l[1]) = <<>> THEN <<>> ELSE <<CollapseSpace(strip(l[1]))>>)
            \o CleanEntries(Tail(l))

\* adapt_text(x, d) with d['is_multiple'] set (lines 617-625): only a string is split
adapt_text(x) ==
    IF x.kind = "none" THEN <<>>
    ELSE IF x.kind = "str" THEN CleanEntries(split(x.val[1], ui_to_list))
    ELSE CleanEntries(x.val)

\* the adapter is applied to the raw value
Adapt ==
    /\ ~adapt_out.done
    /\ adapt_out' = [done |-> TRUE, val |-> adapt_text(adapt_in)]
    /\ UNCHANGED <<adapt_in, prefVars, pathVars, catVars, schemaVars, streamVars, lateVars>>

NextAdapt == Adapt

InitAdapt ==
    /\ adapt_in \in AdaptInputs
    /\ adapt_out = [done |-> FALSE, val |-> <<>>]
    /\ mirror = NewPrefs.mirror
    /\ table = NewPrefs.table
    /\ disable_setting = NewPrefs.disable_setting
    /\ backup = NewPrefs.backup
    /\ plast = NewPrefs.plast
    /\ is_case_sensitive = TRUE
    /\ permanentChoice = FALSE
    /\ title = EmptyMap
    /\ author = EmptyMap
    /\ dbPath = EmptyMap
    /\ dbFmt = EmptyMap
    /\ dirs = EmptyMap
    /\ files = EmptyMap
    /\ ops = 0
    /\ last = Call("open", {}, "ok", "none", 0, {})
    /\ user_cats = Idle
    /\ user_categories = Idle
    /\ cats_changed = Idle
    /\ clast = Idle
    /\ user_version = Idle
    /\ sqlite_master = Idle
    /\ custom_columns = Idle
    /\ delete_trg = Idle
    /\ custom_column_label_map = Idle
    /\ custom_column_num_map = Idle
    /\ field_metadata = Idle
    /\ FIELD_MAP = Idle
    /\ iterOrder = Idle
    /\ sops = Idle
    /\ slast = Idle
    /\ dest_data = Idle
    /\ stream_in = Idle
    /\ add_ret = Idle
    /\ library_id = Idle
    /\ library_id_cache = Idle
    /\ uuid4 = Idle
    /\ llast = Idle
    /\ name_in = Idle
    /\ name_out = Idle
    /\ cover_file = Idle
    /\ cover_call = Idle
    /\ cover_pc = Idle
    /\ cover_log = Idle
    /\ cover_ret = Idle
    /\ race_db = Idle
    /\ race_dirs = Idle
    /\ race_files = Idle
    /\ race_pc = Idle
    /\ race_local = Idle
    /\ race_hist = Idle

SpecAdapt == InitAdapt /\ [][NextAdapt]_vars

\* every string of the raw value split on the separator, the pieces in order
RECURSIVE SplitEach(_)
SplitEach(l) == IF l = <<>> THEN <<>> ELSE split(l[1], ui_to_list) \o SplitEach(Tail(l))

\* C17: for a raw value that is a string or a list of strings the adapter
\* returns the list in which each input string has been split on the
\* separator, every entry trimmed and its runs of whitespace collapsed, and
\* no entry empty; so the list ["a, a"] gives ["a", "a"].
C17_EveryInputStringIsSplit ==
    (adapt_out.done /\ adapt_in.kind # "none")
       => adapt_out.val = CleanEntries(SplitEach(adapt_in.val))

(***************************************************************************)
(*  add_format and the content of the destination file (lines 1085-1101).  *)
(*  A file's content is a sequence of bytes.  A stream is a file object    *)
(*  open on the destination file (its name is a path of that file), a file *)
(*  object open on another file, or a stream in memory, which has no name; *)
(*  data is what reading the stream to its end yields.                     *)
(***************************************************************************)
MaxData == 3
MaxAdds == 2

Bytes == {"x", "y"}

Contents == UNION {[1..k -> Bytes] : k \in 0..MaxData}

NoFile == [exists |-> FALSE, data |-> <<>>]

File(data) == [exists |-> TRUE, data |-> data]

\* the streams a caller can pass, given the destination file as it is
Streams(dest) ==
    {[kind |-> k, data |-> d] : k \in {"other", "memory"}, d \in Contents}
      \cup (IF dest.exists THEN {[kind |-> "dest", data |-> dest.data]} ELSE {})

\* getattr(stream, 'name', False)  (line 1094)
HasName(stream) == stream.kind \in {"dest", "other"}

\* (a variant for which no two paths are the same file)
NeverSameFile(dest, stream) == FALSE

\* samefile(dest, stream.name)  (line 1094)
samefile(dest, stream) == dest.exists /\ stream.kind = "dest"

\* lopen(dest, 'wb'), shutil.copyfileobj(stream, f), f.tell()  (lines 1095-1097):
\* opening truncates the file, so a stream open on that file yields nothing
copyfileobj(stream) ==
    LET written == IF stream.kind = "dest" THEN <<>> ELSE stream.data
    IN  [dest |-> File(written), size |-> Len(written), opened |-> TRUE]

\* DB.add_format: [dest, size, fname, opened]
add_format_stream(dest, stream, book_id, t, a) ==
    LET r == IF ~HasName(stream) \/ ~samefile(dest, stream)
             THEN copyfileobj(stream)
             ELSE [dest |-> dest,
                   size |-> IF dest.exists THEN Len(dest.data) ELSE 0,
                   opened |-> FALSE]
    IN  [dest |-> r.dest, size |-> r.size, opened |-> r.opened,
         fname |-> construct_file_name(book_id, t, a)]

AddFormatStream(stream, t, a) ==
    /\ add_ret.n < MaxAdds
    /\ \E r \in {add_format_stream(dest_data, stream, 1, t, a)} :
       /\ dest_data' = r.dest
       /\ stream_in' = stream
       /\ add_ret' = [n |-> add_ret.n + 1, size |-> r.size, fname |-> r.fname,
                      opened |-> r.opened, title |-> t, author |-> a]
    /\ UNCHANGED <<prefVars, pathVars, catVars, schemaVars, adaptVars, lateVars>>

NextStream ==
    \E stream \in Streams(dest_data), t \in Titles, a \in Authors :
       AddFormatStream(stream, t, a)

InitStream ==
    /\ dest_data \in {NoFile} \cup {File(d) : d \in Contents}
    /\ stream_in = [kind |-> "none", data |-> <<>>]
    /\ add_ret = [n |-> 0, size |-> 0, fname |-> <<>>, opened |-> FALSE,
                  title |-> <<>>, author |-> <<>>]
    /\ mirror = NewPrefs.mirror
    /\ table = NewPrefs.table
    /\ disable_setting = NewPrefs.disable_setting
    /\ backup = NewPrefs.backup
    /\ plast = NewPrefs.plast
    /\ is_case_sensitive = TRUE
    /\ permanentChoice = FALSE
    /\ title = EmptyMap
    /\ author = EmptyMap
    /\ dbPath = EmptyMap
    /\ dbFmt = EmptyMap
    /\ dirs = EmptyMap
    /\ files = EmptyMap
    /\ ops = 0
    /\ last = Call("open", {}, "ok", "none", 0, {})
    /\ user_cats = Idle
    /\ user_categories = Idle
    /\ cats_changed = Idle
    /\ clast = Idle
    /\ user_version = Idle
    /\ sqlite_master = Idle
    /\ custom_columns = Idle
    /\ delete_trg = Idle
    /\ custom_column_label_map = Idle
    /\ custom_column_num_map = Idle
    /\ field_metadata = Idle
    /\ FIELD_MAP = Idle
    /\ iterOrder = Idle
    /\ sops = Idle
    /\ slast = Idle
    /\ adapt_in = Idle
    /\ adapt_out = Idle
    /\ library_id = Idle
    /\ library_id_cache = Idle
    /\ uuid4 = Idle
    /\ llast = Idle
    /\ name_in = Idle
    /\ name_out = Idle
    /\ cover_file = Idle
    /\ cover_call = Idle
    /\ cover_pc = Idle
    /\ cover_log = Idle
    /\ cover_ret = Idle
    /\ race_db = Idle
    /\ race_dirs = Idle
    /\ race_files = Idle
    /\ race_pc = Idle
    /\ race_local = Idle
    /\ race_hist = Idle

SpecStream == InitStream /\ [][NextStream]_vars

\* C18: when the stream passed to add_format is the destination file itself,
\* the destination is not opened for writing, its content is as before and
\* the call returns (size of that file, stem); in every other case the
\* content of the destination after the call is the content of the stream and
\* the size returned is the number of bytes written.
C18_AddFormatIdempotentOnOwnOutput ==
    [][add_ret'.n = add_ret.n + 1
         => /\ add_ret'.fname = construct_file_name(1, add_ret'.title, add_ret'.author)
            /\ IF stream_in'.kind = "dest"
               THEN /\ ~add_ret'.opened
                    /\ dest_data' = dest_data
                    /\ add_ret'.size = Len(dest_data.data)
               ELSE /\ dest_data' = File(stream_in'.data)
                    /\ add_ret'.size = Len(stream_in'.data)
      ]_vars

\* add_format has been given its own output, a file that is not empty
C18_Witness ==
    /\ add_ret.n = 2
    /\ stream_in.kind = "dest"
    /\ ~add_ret.opened
    /\ dest_data.exists
    /\ add_ret.size = Len(dest_data.data)
    /\ add_ret.size > 0

(***************************************************************************)
(*                        Properties of format_hash                        *)
(***************************************************************************)
\* format_hash has just been called for format fmt of book b
Hashed(b, fmt) ==
    /\ last'.op = "format_hash"
    /\ last'.books = {b}
    /\ last'.fmt = fmt

\* the file the record references for fmt is not on disk
ReferencedFileAbsent(b, fmt) ==
    ~FileExists(FS(dirs, files), dbPath[b], FileName(dbFmt[b][fmt], LowerFmt(fmt)))

\* the directory of the record holds no file with the extension of fmt
NoFileOfFormat(b, fmt) ==
    \A f \in DOMAIN files : ~(f[1] = PathKey(dbPath[b]) /\ f[2].ext = LowerFmt(fmt))

MaxLibOps == 8

\* None, as the value of _library_id_ and of the SELECT on an empty table
NoUuid == 0

\* (a variant of the SELECT that finds no row)
SelectNothing(rows) == NoUuid

\* self.conn.get('SELECT uuid FROM library_id', all=False)  (line 880)
SelectUuid(rows) == IF rows = <<>> THEN NoUuid ELSE rows[1]

\* fset (lines 888-893): _library_id_ is assigned, then DELETE and INSERT are
\* executed; [rows, cache, raised]
library_id_fset(rows, val, dbFails) ==
    [rows |-> IF dbFails THEN rows ELSE <<val>>, cache |-> val, raised |-> dbFails]

\* fget (lines 878-886): [rows, cache, uuid4, raised, ret, generated]
library_id_fget(rows, cache, fresh, dbFails) ==
    IF cache # NoUuid
    THEN [rows |-> rows, cache |-> cache, uuid4 |-> fresh, raised |-> FALSE,
          ret |-> cache, generated |-> FALSE]
    ELSE IF SelectUuid(rows) = NoUuid
    THEN LET w == library_id_fset(rows, fresh, dbFails)
         IN  [rows |-> w.rows, cache |-> w.cache, uuid4 |-> fresh + 1,
              raised |-> w.raised, ret |-> IF w.raised THEN NoUuid ELSE w.cache,
              generated |-> TRUE]
    ELSE [rows |-> rows, cache |-> SelectUuid(rows), uuid4 |-> fresh, raised |-> FALSE,
          ret |-> SelectUuid(rows), generated |-> FALSE]

\* the record of a call; open: a DB object exists, first: the first value a
\* read returned, stored: the number of times an identifier was written
LibCall(op, r, open) ==
    [op |-> op, outcome |-> IF r.raised THEN "raised" ELSE "ok", ret |-> r.ret,
     open |-> open, n |-> llast.n + 1,
     first |-> IF llast.first = NoUuid THEN r.ret ELSE llast.first,
     stored |-> llast.stored + (IF r.rows # library_id THEN 1 ELSE 0),
     opens |-> llast.opens + (IF op = "open" /\ open THEN 1 ELSE 0)]

\* DB.__init__: a new DB object, whose _library_id_ is not set, reads library_id
\* (line 364); when the read raises there is no object
OpenForId(dbFails) ==
    /\ llast.n < MaxLibOps
    /\ \E r \in {library_id_fget(library_id, NoUuid, uuid4, dbFails)} :
       /\ library_id' = r.rows
       /\ library_id_cache' = IF r.raised THEN NoUuid ELSE r.cache
       /\ uuid4' = r.uuid4
       /\ llast' = LibCall("open", r, ~r.raised)
    /\ UNCHANGED <<prefVars, pathVars, catVars, schemaVars, adaptVars, streamVars, nameVars, coverVars, raceVars>>

\* a later read of db.library_id in the open session
ReadLibraryId(dbFails) ==
    /\ llast.n < MaxLibOps
    /\ llast.open
    /\ \E r \in {library_id_fget(library_id, library_id_cache, uuid4, dbFails)} :
       /\ library_id' = r.rows
       /\ library_id_cache' = r.cache
       /\ uuid4' = r.uuid4
       /\ llast' = LibCall("read", r, TRUE)
    /\ UNCHANGED <<prefVars, pathVars, catVars, schemaVars, adaptVars, streamVars, nameVars, coverVars, raceVars>>

NextLib ==
    \/ \E dbFails \in BOOLEAN : OpenForId(dbFails)
    \/ \E dbFails \in BOOLEAN : ReadLibraryId(dbFails)

\* A library whose library_id table is empty, or holds the identifier 1
InitLib ==
    /\ library_id \in {<<>>, <<1>>}
    /\ library_id_cache = NoUuid
    /\ uuid4 = 2
    /\ llast = [op |-> "none", outcome |-> "none", ret |-> NoUuid, open |-> FALSE,
                n |-> 0, first |-> NoUuid, stored |-> 0, opens |-> 0]
    /\ mirror = NewPrefs.mirror
    /\ table = NewPrefs.table
    /\ disable_setting = NewPrefs.disable_setting
    /\ backup = NewPrefs.backup
    /\ plast = NewPrefs.plast
    /\ is_case_sensitive = TRUE
    /\ permanentChoice = FALSE
    /\ title = EmptyMap
    /\ author = EmptyMap
    /\ dbPath = EmptyMap
    /\ dbFmt = EmptyMap
    /\ dirs = EmptyMap
    /\ files = EmptyMap
    /\ ops = 0
    /\ last = Call("open", {}, "ok", "none", 0, {})
    /\ user_cats = Idle
    /\ user_categories = Idle
    /\ cats_changed = Idle
    /\ clast = Idle
    /\ user_version = Idle
    /\ sqlite_master = Idle
    /\ custom_columns = Idle
    /\ delete_trg = Idle
    /\ custom_column_label_map = Idle
    /\ custom_column_num_map = Idle
    /\ field_metadata = Idle
    /\ FIELD_MAP = Idle
    /\ iterOrder = Idle
    /\ sops = Idle
    /\ slast = Idle
    /\ adapt_in = Idle
    /\ adapt_out = Idle
    /\ dest_data = Idle
    /\ stream_in = Idle
    /\ add_ret = Idle
    /\ name_in = Idle
    /\ name_out = Idle
    /\ cover_file = Idle
    /\ cover_call = Idle
    /\ cover_pc = Idle
    /\ cover_log = Idle
    /\ cover_ret = Idle
    /\ race_db = Idle
    /\ race_dirs = Idle
    /\ race_files = Idle
    /\ race_pc = Idle
    /\ race_local = Idle
    /\ race_hist = Idle

SpecLib == InitLib /\ [][NextLib]_vars

\* C21: the library identifier is generated at most once: a read of
\* library_id on a library that has none stores one uuid, every later read,
\* in the same session or after the library is opened again, returns that
\* value, and after a read that returned the table holds exactly one row.
C21_LibraryIdGeneratedOnce ==
    [][/\ llast'.n = llast.n + 1 /\ llast'.outcome = "ok"
            => /\ library_id' = <<llast'.ret>>
               /\ llast.first # NoUuid => llast'.ret = llast.first
       /\ library_id # <<>> => library_id' = library_id
       /\ llast'.stored <= 1
      ]_vars

\* a library without identifier was opened, read, and opened again: the
\* second session reads the identifier the first one stored
C21_Witness ==
    /\ llast.op = "open"
    /\ llast.outcome = "ok"
    /\ llast.opens = 2
    /\ llast.stored = 1
    /\ llast.ret = llast.first
    /\ library_id = <<llast.ret>>

(***************************************************************************)
(*                 Further properties of update_path                       *)
(***************************************************************************)
\* update_path has just been called for book b
Updated(b) == last'.op = "update_path" /\ last'.books = {b}

\* the path and the stem update_path computes for book b
TargetPath(b) == construct_path_name(b, title[b], author[b]).path
TargetStem(b) == construct_file_name(b, title[b], author[b])

\* C22 (as claimed): update_path writes the persisted stems and the persisted path only
\* after the cover and every format file of the record have been copied:
\* whenever a call has changed the persisted path or a persisted stem, the
\* cover and every format file that was on disk under the old directory and
\* old stem is in the target directory under the new stem.
C22_DbWrittenAfterCopies ==
    [][\A b \in Books :
          (Updated(b) /\ (dbPath'[b] # dbPath[b] \/ dbFmt'[b] # dbFmt[b]))
             => /\ \A fmt \in DOMAIN dbFmt[b] :
                      FileExists(FS(dirs, files), dbPath[b],
                                 FileName(dbFmt[b][fmt], LowerFmt(fmt)))
                         => FileExists(FS(dirs', files'), TargetPath(b),
                                       FileName(TargetStem(b), LowerFmt(fmt)))
                /\ FileExists(FS(dirs, files), dbPath[b], CoverName)
                      => FileExists(FS(dirs', files'), TargetPath(b), CoverName)
      ]_vars


\* C22 (amended): for a record whose persisted path is not empty, update_path
\* writes the persisted stems and the persisted path only after the cover and
\* every format file have been copied: whenever a call has changed the path
\* or a stem, the cover and every format file that was on disk under the old
\* directory and old stem is in the target directory under the new stem, and
\* a call in which a copy raised has changed neither.  (For a record whose
\* persisted path is empty nothing is copied and the fields are written.)
C22_DbWrittenAfterCopiesOfSource ==
    [][\A b \in Books :
          (Updated(b) /\ dbPath[b] # <<>>)
             => /\ (dbPath'[b] # dbPath[b] \/ dbFmt'[b] # dbFmt[b])
                   => /\ \A fmt \in DOMAIN dbFmt[b] :
                            FileExists(FS(dirs, files), dbPath[b],
                                       FileName(dbFmt[b][fmt], LowerFmt(fmt)))
                               => FileExists(FS(dirs', files'), TargetPath(b),
                                             FileName(TargetStem(b), LowerFmt(fmt)))
                      /\ FileExists(FS(dirs, files), dbPath[b], CoverName)
                            => FileExists(FS(dirs', files'), TargetPath(b), CoverName)
                /\ last'.copy = "raised" => dbPath'[b] = dbPath[b] /\ dbFmt'[b] = dbFmt[b]
      ]_vars

\* update_path has copied the files of a record to a new directory and written
\* the new stems; the write of the path then raised
C22_Witness ==
    /\ last.op = "update_path"
    /\ last.outcome = "raised"
    /\ last.copy = "ok"
    /\ last.dbWrites >= 1
    /\ \E b \in last.books :
          /\ dbPath[b] # <<>>
          /\ dbPath[b] # TargetPath(b)
          /\ \A fmt \in DOMAIN dbFmt[b] :
                /\ dbFmt[b][fmt] = TargetStem(b)
                /\ FileExists(FS(dirs, files), TargetPath(b),
                              FileName(TargetStem(b), LowerFmt(fmt)))
          /\ DOMAIN dbFmt[b] # {}


\* on a case insensitive file system the new path of book b differs from its
\* persisted path by letter case only
CaseOnly(b) ==
    /\ ~is_case_sensitive
    /\ dbPath[b] # <<>>
    /\ \E new \in {TargetPath(b)} :
          /\ new # dbPath[b]
          /\ Len(new) = Len(dbPath[b])
          /\ \A i \in DOMAIN new : Lower(new[i]) = Lower(dbPath[b][i])

\* the name the directory p carries on disk
NameOnDisk(F, p) == F.dirs[PathKey(p)]

\* C23: on a case insensitive file system, when the new path differs from the
\* persisted path by letter case only, update_path, however it ends, deletes
\* neither the directory of the record nor a file in it, and when it returns
\* and no rename of a segment failed each segment that differs carries the
\* new letter case on disk.
C23_CaseOnlyRenamedInPlace ==
    \A b \in Live :
       CaseOnly(b) =>
          \A failAt \in FailPoints, renameFails \in BOOLEAN, segFail \in SegmentFailures :
             \E r \in {update_path(FS(dirs, files), b, title[b], author[b], dbPath[b],
                                   dbFmt[b], failAt, renameFails, segFail)} :
                /\ r.dels = {}
                /\ DirExists(FS(dirs, files), dbPath[b]) => DirExists(r.fs, dbPath[b])
                /\ \A f \in DOMAIN files : f[1] = PathKey(dbPath[b]) => f \in DOMAIN r.fs.files
                /\ (r.outcome = "ok" /\ segFail = 0)
                      => \A i \in DOMAIN dbPath[b] :
                            dbPath[b][i] # r.path[i]
                               => NameOnDisk(r.fs, SubSeq(r.path, 1, i)) = r.path[i]

\* update_path has returned for a record whose author was changed from 'a' to
\* 'A' on a case insensitive file system: nothing was deleted, and the
\* directory of the author is now 'A' on disk
C23_Witness ==
    /\ ~is_case_sensitive
    /\ last.op = "update_path"
    /\ last.outcome = "ok"
    /\ last.dels = {}
    /\ \E b \in last.books :
          /\ b # NewBook
          /\ author[b] = <<"A">>
          /\ Synced(b)
          /\ NameOnDisk(FS(dirs, files), SubSeq(dbPath[b], 1, 1)) = <<"A">>
          /\ FileExists(FS(dirs, files), dbPath[b], CoverName)


\* every segment of path p carries on disk the case p has
CaseMatches(F, p) == \A i \in DOMAIN p : NameOnDisk(F, SubSeq(p, 1, i)) = p[i]

\* update_path for book b with the rename of segment segFail failing, and the
\* call of update_path that follows it with the same title and author, in
\* which every rename can succeed
FirstSync(b, renameFails, segFail) ==
    update_path(FS(dirs, files), b, title[b], author[b], dbPath[b], dbFmt[b],
                "none", renameFails, segFail)

NextSync(b, r) == update_path(r.fs, b, title[b], author[b], r.path, r.stems, "none", FALSE, 0)

\* C24 (as claimed): when the rename of a segment fails, update_path returns
\* without raising, and the next update_path for the record with the same
\* title and author renames the segment, so that the case on disk matches.
C24_FailedRenameRetried ==
    \A b \in Live :
       CaseOnly(b) =>
          \A renameFails \in BOOLEAN, segFail \in SegmentFailures :
             \E r \in {FirstSync(b, renameFails, segFail)} :
                /\ r.outcome = "ok"
                /\ CaseMatches(NextSync(b, r).fs, r.path)

\* C24 (amended): when the rename of a segment fails, update_path returns
\* without raising and has written the new path; the next update_path for the
\* record with the same title and author returns at once and leaves the file
\* system as it is, so a case mismatch that is left stays.
C24_FailedRenameNotRaisedNotRetried ==
    \A b \in Live :
       CaseOnly(b) =>
          \A renameFails \in BOOLEAN, segFail \in SegmentFailures :
             \E r \in {FirstSync(b, renameFails, segFail)} :
                /\ r.outcome = "ok"
                /\ r.path = TargetPath(b)
                /\ \E r2 \in {NextSync(b, r)} :
                      /\ r2.outcome = "fast"
                      /\ r2.fs = r.fs
                      /\ r2.path = r.path

\* after a call in which the rename of a segment failed, update_path has been
\* called again and has returned at once: the case on disk is not the
\* persisted one
C24_Witness ==
    /\ ~is_case_sensitive
    /\ last.op = "update_path"
    /\ last.outcome = "fast"
    /\ \E b \in last.books :
          /\ b # NewBook
          /\ Synced(b)
          /\ DirExists(FS(dirs, files), dbPath[b])
          /\ ~CaseMatches(FS(dirs, files), dbPath[b])


\* ---------------------------------------------------------------------------
\* construct_path_name on its own: the names it gives for every author
\* ---------------------------------------------------------------------------

MaxName == 3

NameChars == {"a", " ", "."}

\* the authors construct_path_name is called with: every string over NameChars
\* of at most MaxName characters, the empty one included
NameAuthors == UNION {[1..n -> NameChars] : n \in 0..MaxName}

NameTitles == { <<"a">>, <<"b">> }

NotCalled == [done |-> FALSE, ok |-> FALSE, path |-> <<>>]

\* a call of construct_path_name(book_id, title, author)
ConstructPathName ==
    /\ ~name_out.done
    /\ \E r \in {construct_path_name(name_in.book_id, name_in.title, name_in.author)} :
          name_out' = [done |-> TRUE, ok |-> r.ok, path |-> r.path]
    /\ UNCHANGED <<name_in, prefVars, pathVars, catVars, schemaVars, adaptVars, streamVars, libVars, coverVars, raceVars>>

NextName == ConstructPathName

InitName ==
    /\ name_in \in [book_id : Books, title : NameTitles, author : NameAuthors]
    /\ name_out = NotCalled
    /\ mirror = NewPrefs.mirror
    /\ table = NewPrefs.table
    /\ disable_setting = NewPrefs.disable_setting
    /\ backup = NewPrefs.backup
    /\ plast = NewPrefs.plast
    /\ is_case_sensitive = TRUE
    /\ permanentChoice = FALSE
    /\ title = EmptyMap
    /\ author = EmptyMap
    /\ dbPath = EmptyMap
    /\ dbFmt = EmptyMap
    /\ dirs = EmptyMap
    /\ files = EmptyMap
    /\ ops = 0
    /\ last = Call("open", {}, "ok", "none", 0, {})
    /\ user_cats = Idle
    /\ user_categories = Idle
    /\ cats_changed = Idle
    /\ clast = Idle
    /\ user_version = Idle
    /\ sqlite_master = Idle
    /\ custom_columns = Idle
    /\ delete_trg = Idle
    /\ custom_column_label_map = Idle
    /\ custom_column_num_map = Idle
    /\ field_metadata = Idle
    /\ FIELD_MAP = Idle
    /\ iterOrder = Idle
    /\ sops = Idle
    /\ slast = Idle
    /\ adapt_in = Idle
    /\ adapt_out = Idle
    /\ dest_data = Idle
    /\ stream_in = Idle
    /\ add_ret = Idle
    /\ library_id = Idle
    /\ library_id_cache = Idle
    /\ uuid4 = Idle
    /\ llast = Idle
    /\ cover_file = Idle
    /\ cover_call = Idle
    /\ cover_pc = Idle
    /\ cover_log = Idle
    /\ cover_ret = Idle
    /\ race_db = Idle
    /\ race_dirs = Idle
    /\ race_files = Idle
    /\ race_pc = Idle
    /\ race_local = Idle
    /\ race_hist = Idle

SpecName == InitName /\ [][NextName]_vars

\* the author after ascii_filename and the cut to PATH_LIMIT is empty or holds
\* spaces and dots only
DegenerateAuthor(a) ==
    \A i \in DOMAIN Truncate(ascii_filename(a), PATH_LIMIT) :
       Truncate(ascii_filename(a), PATH_LIMIT)[i] \in {" ", "."}

\* C25: construct_path_name returns for every author; for an author whose
\* sanitized and truncated form is empty or holds only spaces and dots it
\* gives '<Unknown>/<title> (<id>)', and for every other author the author
\* component ends in neither a space nor a dot and is at most PATH_LIMIT long.
C25_DegenerateAuthorGivesUnknown ==
    name_out.done =>
       /\ name_out.ok
       /\ IF DegenerateAuthor(name_in.author)
          THEN name_out.path =
                  << ascii_filename(UnknownAuthor),
                     Truncate(ascii_filename(name_in.title), PATH_LIMIT)
                        \o <<" ", "(", IdTok(name_in.book_id), ")">> >>
          ELSE /\ Len(name_out.path[1]) <= PATH_LIMIT
               /\ Len(name_out.path[1]) > 0
               /\ name_out.path[1][Len(name_out.path[1])] \notin {" ", "."}

\* the part of C25 the code keeps: an author with a character that is neither
\* a space nor a dot gets a component without trailing space or dot
C25_OtherAuthorsStripped ==
    (name_out.done /\ ~DegenerateAuthor(name_in.author)) =>
       /\ name_out.ok
       /\ Len(name_out.path[1]) <= PATH_LIMIT
       /\ name_out.path[1][Len(name_out.path[1])] \notin {" ", "."}

\* what the code does with the other authors: the call raises
C25_DegenerateAuthorRaises ==
    (name_out.done /\ DegenerateAuthor(name_in.author)) => ~name_out.ok


(***************************************************************************)
(*                  Further properties of FIELD_MAP                        *)
(***************************************************************************)
\* the slots FIELD_MAP hands out
Slots(fm) == {fm[k] : k \in DOMAIN fm}

\* the keys FIELD_MAP holds for the custom column num of the given datatype
KeysOf(num, datatype) == IF datatype = "series" THEN CustomKeys(num) ELSE {NumKey(num)}

\* C26: after the library is opened, a custom column of datatype series has
\* two slots of FIELD_MAP, s for the column and s+1 for its index, every other
\* custom column has one slot, no two fields share a slot, and the slots are
\* exactly 0 .. N with no gap.
C26_FieldMapInjectiveGapFree ==
    OpenedOk(slast) =>
       /\ DOMAIN FIELD_MAP
             = DOMAIN BuiltinMap \cup {"ondevice", "marked", "series_sort"}
                  \cup UNION {KeysOf(n, custom_columns[n].datatype) : n \in custom_column_num_map}
       /\ \A n \in custom_column_num_map :
             /\ NumKey(n) \in DOMAIN FIELD_MAP
             /\ IF custom_columns[n].datatype = "series"
                THEN /\ IndexKey(n) \in DOMAIN FIELD_MAP
                     /\ FIELD_MAP[IndexKey(n)] = FIELD_MAP[NumKey(n)] + 1
                ELSE IndexKey(n) \notin DOMAIN FIELD_MAP
       /\ \A j, k \in DOMAIN FIELD_MAP : FIELD_MAP[j] = FIELD_MAP[k] => j = k
       /\ Slots(FIELD_MAP) = 0 .. (Cardinality(DOMAIN FIELD_MAP) - 1)

\* the library has been opened with a series column and another custom column:
\* the series column has two slots
C26_Witness ==
    /\ OpenedOk(slast)
    /\ \E n, k \in custom_column_num_map :
          /\ custom_columns[n].datatype = "series"
          /\ custom_columns[k].datatype # "series"
          /\ FIELD_MAP[IndexKey(n)] = FIELD_MAP[NumKey(n)] + 1
          /\ IndexKey(k) \notin DOMAIN FIELD_MAP
    /\ Cardinality(DOMAIN FIELD_MAP) = 28


\* ---------------------------------------------------------------------------
\* set_cover and copy_cover_to, one file operation at a time
\* ---------------------------------------------------------------------------

\* the bytes a cover holds
CoverData == { <<1>>, <<2>> }

NoCover == [exists |-> FALSE, data |-> <<>>]

Cover(data) == [exists |-> TRUE, data |-> data]

\* set_cover(book_id, path, None)
DataNone == <<>>

\* the calls: copy_cover_to(path, dest) with dest a stream and no
\* windows_atomic_move, set_cover(book_id, path, data) with data None or bytes;
\* fails[i]: the i-th attempt at the file operation meets an open handle
CoverCalls ==
    [op : {"copy_cover_to"}, data : {DataNone}, fails : [1..2 -> BOOLEAN]]
       \cup [op : {"set_cover"}, data : {DataNone} \cup CoverData, fails : [1..2 -> BOOLEAN]]

\* the file operation of the call: lopen(path, 'rb'), os.remove(path),
\* save_cover_data_to(data, path)
FileOperation(call) ==
    IF call.op = "copy_cover_to" THEN "open"
    ELSE IF call.data = DataNone THEN "remove" ELSE "save"

\* line 976 (os.access(path, os.R_OK)) and line 1012 (os.path.exists(path)):
\* the call has a file operation to do
HasOperation(call, file) == FileOperation(call) = "save" \/ file.exists

\* the file after the operation has succeeded
Performed(call, file) ==
    IF FileOperation(call) = "remove" THEN NoCover
    ELSE IF FileOperation(call) = "save" THEN Cover(call.data)
    ELSE file

CoverRet(ret, dest) == [ret |-> ret, dest |-> dest]

\* the call has succeeded: copy_cover_to has copied the file to dest and
\* returns True (lines 982-987), set_cover returns None
Returned(call, file) ==
    IF call.op = "copy_cover_to" THEN CoverRet("True", file.data) ELSE CoverRet("None", <<>>)

\* lines 976, 999 and lines 1011-1012: nothing to open or to remove
NoOperation ==
    /\ cover_pc = "start"
    /\ ~HasOperation(cover_call, cover_file)
    /\ cover_pc' = "done"
    /\ cover_ret' = IF cover_call.op = "copy_cover_to"
                    THEN CoverRet("False", <<>>) ELSE CoverRet("None", <<>>)
    /\ UNCHANGED <<cover_file, cover_call, cover_log>>
    /\ UNCHANGED <<prefVars, pathVars, catVars, schemaVars, adaptVars, streamVars, libVars, nameVars, raceVars>>

\* lines 977-978, 1013-1014, 1019-1020: the first attempt.  After the open of
\* line 978 has succeeded, copy_cover_to goes on to line 981.
FirstAttempt ==
    /\ cover_pc = "start"
    /\ HasOperation(cover_call, cover_file)
    /\ IF cover_call.fails[1]
       THEN /\ cover_log' = <<"failed">>
            /\ cover_pc' = "sleep"
            /\ UNCHANGED <<cover_file, cover_ret>>
       ELSE /\ cover_log' = <<"ok">>
            /\ cover_file' = Performed(cover_call, cover_file)
            /\ IF cover_call.op = "copy_cover_to"
               THEN cover_pc' = "again" /\ UNCHANGED cover_ret
               ELSE cover_pc' = "done" /\ cover_ret' = Returned(cover_call, cover_file')
    /\ UNCHANGED cover_call
    /\ UNCHANGED <<prefVars, pathVars, catVars, schemaVars, adaptVars, streamVars, libVars, nameVars, raceVars>>

\* lines 979-980, 1015-1016, 1021-1022: time.sleep(0.2)
Sleep ==
    /\ cover_pc = "sleep"
    /\ cover_pc' = "again"
    /\ UNCHANGED <<cover_file, cover_call, cover_log, cover_ret>>
    /\ UNCHANGED <<prefVars, pathVars, catVars, schemaVars, adaptVars, streamVars, libVars, nameVars, raceVars>>

\* line 981, line 1017, line 1023: the operation is done again; a failure is
\* raised to the caller
SecondAttempt ==
    /\ cover_pc = "again"
    /\ IF cover_call.fails[2]
       THEN /\ cover_log' = Append(cover_log, "failed")
            /\ cover_pc' = "raised"
            /\ cover_ret' = CoverRet("raised", <<>>)
            /\ UNCHANGED cover_file
       ELSE /\ cover_log' = Append(cover_log, "ok")
            /\ cover_file' = Performed(cover_call, cover_file)
            /\ cover_pc' = "done"
            /\ cover_ret' = Returned(cover_call, cover_file')
    /\ UNCHANGED cover_call
    /\ UNCHANGED <<prefVars, pathVars, catVars, schemaVars, adaptVars, streamVars, libVars, nameVars, raceVars>>

NextCover ==
    \/ NoOperation
    \/ FirstAttempt
    \/ Sleep
    \/ SecondAttempt

InitCover ==
    /\ cover_file \in {NoCover} \cup {Cover(d) : d \in CoverData}
    /\ cover_call \in CoverCalls
    /\ cover_pc = "start"
    /\ cover_log = <<>>
    /\ cover_ret = CoverRet("none", <<>>)
    /\ mirror = NewPrefs.mirror
    /\ table = NewPrefs.table
    /\ disable_setting = NewPrefs.disable_setting
    /\ backup = NewPrefs.backup
    /\ plast = NewPrefs.plast
    /\ is_case_sensitive = TRUE
    /\ permanentChoice = FALSE
    /\ title = EmptyMap
    /\ author = EmptyMap
    /\ dbPath = EmptyMap
    /\ dbFmt = EmptyMap
    /\ dirs = EmptyMap
    /\ files = EmptyMap
    /\ ops = 0
    /\ last = Call("open", {}, "ok", "none", 0, {})
    /\ user_cats = Idle
    /\ user_categories = Idle
    /\ cats_changed = Idle
    /\ clast = Idle
    /\ user_version = Idle
    /\ sqlite_master = Idle
    /\ custom_columns = Idle
    /\ delete_trg = Idle
    /\ custom_column_label_map = Idle
    /\ custom_column_num_map = Idle
    /\ field_metadata = Idle
    /\ FIELD_MAP = Idle
    /\ iterOrder = Idle
    /\ sops = Idle
    /\ slast = Idle
    /\ adapt_in = Idle
    /\ adapt_out = Idle
    /\ dest_data = Idle
    /\ stream_in = Idle
    /\ add_ret = Idle
    /\ library_id = Idle
    /\ library_id_cache = Idle
    /\ uuid4 = Idle
    /\ llast = Idle
    /\ name_in = Idle
    /\ name_out = Idle
    /\ race_db = Idle
    /\ race_dirs = Idle
    /\ race_files = Idle
    /\ race_pc = Idle
    /\ race_local = Idle
    /\ race_hist = Idle

SpecCover == InitCover /\ [][NextCover]_vars

\* C27: the file operation of set_cover or copy_cover_to that fails because of
\* an open handle is attempted at most twice; the failure of the second
\* attempt is raised; when the first attempt succeeds the operation is not
\* done a second time.
C27_RetriedAtMostOnce ==
    /\ Len(cover_log) <= 2
    /\ (Len(cover_log) = 2 /\ cover_log[2] = "failed") => cover_pc = "raised"
    /\ (cover_pc \in {"done", "raised"} /\ Len(cover_log) >= 1 /\ cover_log[1] = "ok")
          => Len(cover_log) = 1

\* the part of C27 the code keeps
C27_AtMostTwoAttemptsSecondFailureRaised ==
    /\ Len(cover_log) <= 2
    /\ (Len(cover_log) = 2 /\ cover_log[2] = "failed") => cover_pc = "raised"
    /\ cover_pc = "raised" => (Len(cover_log) = 2 /\ cover_log[2] = "failed")
    /\ (cover_pc \in {"done", "raised"} /\ cover_call.op = "set_cover"
           /\ Len(cover_log) >= 1 /\ cover_log[1] = "ok")
          => Len(cover_log) = 1

\* what copy_cover_to does: the cover is opened twice whenever there is one
C27_CoverAlwaysOpenedTwice ==
    (cover_pc \in {"done", "raised"} /\ cover_call.op = "copy_cover_to" /\ cover_log # <<>>)
       => Len(cover_log) = 2


\* ---------------------------------------------------------------------------
\* update_path for one record from two threads, one statement at a time
\* ---------------------------------------------------------------------------
\* The record has one format.  Its directory is named after its title, under
\* the directory of its author, which does not change; the stem of its format
\* file is named after its title as well.

Threads == {1, 2}

\* the title each thread calls update_path with
NewTitle(t) == IF t = 1 THEN "x" ELSE "y"

OldTitle == "o"

\* path_field.for_book(book_id, default_value=''): a record without a path
NoPath == ""

AuthorDir == "author"

\* os.path.exists(spath) for the directory of a title
RaceDirExists(D, d) == d = NoPath \/ (d \in D /\ AuthorDir \in D)

\* (a variant in which no file is copied)
RaceCopyNothing(F, current_path, name, tpath, fname) == F

\* copy_format_to (lines 1025-1067) with format_abspath (lines 917-929): the
\* file named in the database, or else any file of the format in the
\* directory, which is first copied to the name in the database; the files
RaceCopy(F, current_path, name, tpath, fname) ==
    IF <<current_path, name>> \in F THEN F \cup {<<tpath, fname>>}
    ELSE IF \E x \in F : x[1] = current_path
         THEN F \cup {<<current_path, name>>, <<tpath, fname>>}
         ELSE F

Local(current_path, source_ok) == [current_path |-> current_path, source_ok |-> source_ok]

\* lines 1104-1116: the path, the current path and the names are read
Enter(t) ==
    /\ race_pc[t] \in {"idle", "done"}
    /\ race_local' = [race_local EXCEPT ![t] = Local(race_db.path, FALSE)]
    /\ race_pc' = [race_pc EXCEPT ![t] =
                      IF NewTitle(t) = race_db.path /\ race_db.fname = NewTitle(t)
                      THEN "done" ELSE "source_ok"]
    /\ race_hist' = [race_hist EXCEPT !.overlap =
                        @ \/ \E u \in Threads \ {t} : race_pc[u] \notin {"idle", "done"}]
    /\ UNCHANGED <<race_db, race_dirs, race_files>>
    /\ UNCHANGED <<prefVars, pathVars, catVars, schemaVars, adaptVars, streamVars, libVars, nameVars, coverVars>>

\* line 1120: source_ok = current_path and os.path.exists(spath)
CheckSource(t) ==
    /\ race_pc[t] = "source_ok"
    /\ race_local' = [race_local EXCEPT ![t].source_ok =
                         race_local[t].current_path # NoPath
                            /\ RaceDirExists(race_dirs, race_local[t].current_path)]
    /\ race_pc' = [race_pc EXCEPT ![t] = "makedirs"]
    /\ UNCHANGED <<race_db, race_dirs, race_files, race_hist>>
    /\ UNCHANGED <<prefVars, pathVars, catVars, schemaVars, adaptVars, streamVars, libVars, nameVars, coverVars>>

\* lines 1123-1124: os.makedirs(tpath)
MakeTarget(t) ==
    /\ race_pc[t] = "makedirs"
    /\ race_dirs' = race_dirs \cup {AuthorDir, NewTitle(t)}
    /\ race_pc' = [race_pc EXCEPT ![t] = IF race_local[t].source_ok THEN "copy" ELSE "set_fname"]
    /\ UNCHANGED <<race_db, race_files, race_local, race_hist>>
    /\ UNCHANGED <<prefVars, pathVars, catVars, schemaVars, adaptVars, streamVars, libVars, nameVars, coverVars>>

\* lines 1130-1133: the format is copied; the name of its file is read from the
\* database now, the directory is the one read on entry
MigrateFormat(t) ==
    /\ race_pc[t] = "copy"
    /\ race_files' = IF RaceDirExists(race_dirs, NewTitle(t))
                     THEN RaceCopy(race_files, race_local[t].current_path, race_db.fname,
                                   NewTitle(t), NewTitle(t))
                     ELSE race_files
    /\ race_pc' = [race_pc EXCEPT ![t] =
                      IF RaceDirExists(race_dirs, NewTitle(t))
                         \/ RaceCopy(race_files, race_local[t].current_path, race_db.fname,
                                     NewTitle(t), NewTitle(t)) = race_files
                      THEN "set_fname" ELSE "raised"]
    /\ UNCHANGED <<race_db, race_dirs, race_local, race_hist>>
    /\ UNCHANGED <<prefVars, pathVars, catVars, schemaVars, adaptVars, streamVars, libVars, nameVars, coverVars>>

\* lines 1135-1136: set_fname
WriteFname(t) ==
    /\ race_pc[t] = "set_fname"
    /\ race_db' = [race_db EXCEPT !.fname = NewTitle(t)]
    /\ race_pc' = [race_pc EXCEPT ![t] = "set_path"]
    /\ UNCHANGED <<race_dirs, race_files, race_local, race_hist>>
    /\ UNCHANGED <<prefVars, pathVars, catVars, schemaVars, adaptVars, streamVars, libVars, nameVars, coverVars>>

\* line 1137: set_path
WritePath(t) ==
    /\ race_pc[t] = "set_path"
    /\ race_db' = [race_db EXCEPT !.path = NewTitle(t)]
    /\ race_pc' = [race_pc EXCEPT ![t] = "rmtree"]
    /\ UNCHANGED <<race_dirs, race_files, race_local, race_hist>>
    /\ UNCHANGED <<prefVars, pathVars, catVars, schemaVars, adaptVars, streamVars, libVars, nameVars, coverVars>>

\* lines 1140-1147: the source directory is deleted with what it holds, and
\* the directory of the author when nothing is left in it
DropSource(t) ==
    /\ race_pc[t] = "rmtree"
    /\ IF /\ race_local[t].source_ok
          /\ RaceDirExists(race_dirs, race_local[t].current_path)
          /\ race_local[t].current_path # NewTitle(t)
       THEN /\ race_files' = {x \in race_files : x[1] # race_local[t].current_path}
            /\ race_dirs' = IF race_dirs \ {race_local[t].current_path} = {AuthorDir}
                            THEN {}
                            ELSE race_dirs \ {race_local[t].current_path}
       ELSE UNCHANGED <<race_dirs, race_files>>
    /\ race_pc' = [race_pc EXCEPT ![t] = "done"]
    /\ UNCHANGED <<race_db, race_local, race_hist>>
    /\ UNCHANGED <<prefVars, pathVars, catVars, schemaVars, adaptVars, streamVars, libVars, nameVars, coverVars>>

NextRace ==
    \/ \E t \in Threads : Enter(t)
    \/ \E t \in Threads : CheckSource(t)
    \/ \E t \in Threads : MakeTarget(t)
    \/ \E t \in Threads : MigrateFormat(t)
    \/ \E t \in Threads : WriteFname(t)
    \/ \E t \in Threads : WritePath(t)
    \/ \E t \in Threads : DropSource(t)

\* The record is in its directory with its format file, or it has no path yet
\* and its format file has been added under the library itself.
InitRace ==
    /\ race_hist \in [overlap : {FALSE}, start : {OldTitle, NoPath}]
    /\ race_db = [path |-> race_hist.start, fname |-> OldTitle]
    /\ race_dirs = IF race_hist.start = NoPath THEN {} ELSE {AuthorDir, OldTitle}
    /\ race_files = {<<race_hist.start, OldTitle>>}
    /\ race_pc = [t \in Threads |-> "idle"]
    /\ race_local = [t \in Threads |-> Local(NoPath, FALSE)]
    /\ mirror = NewPrefs.mirror
    /\ table = NewPrefs.table
    /\ disable_setting = NewPrefs.disable_setting
    /\ backup = NewPrefs.backup
    /\ plast = NewPrefs.plast
    /\ is_case_sensitive = TRUE
    /\ permanentChoice = FALSE
    /\ title = EmptyMap
    /\ author = EmptyMap
    /\ dbPath = EmptyMap
    /\ dbFmt = EmptyMap
    /\ dirs = EmptyMap
    /\ files = EmptyMap
    /\ ops = 0
    /\ last = Call("open", {}, "ok", "none", 0, {})
    /\ user_cats = Idle
    /\ user_categories = Idle
    /\ cats_changed = Idle
    /\ clast = Idle
    /\ user_version = Idle
    /\ sqlite_master = Idle
    /\ custom_columns = Idle
    /\ delete_trg = Idle
    /\ custom_column_label_map = Idle
    /\ custom_column_num_map = Idle
    /\ field_metadata = Idle
    /\ FIELD_MAP = Idle
    /\ iterOrder = Idle
    /\ sops = Idle
    /\ slast = Idle
    /\ adapt_in = Idle
    /\ adapt_out = Idle
    /\ dest_data = Idle
    /\ stream_in = Idle
    /\ add_ret = Idle
    /\ library_id = Idle
    /\ library_id_cache = Idle
    /\ uuid4 = Idle
    /\ llast = Idle
    /\ name_in = Idle
    /\ name_out = Idle
    /\ cover_file = Idle
    /\ cover_call = Idle
    /\ cover_pc = Idle
    /\ cover_log = Idle
    /\ cover_ret = Idle

SpecRace == InitRace /\ [][NextRace]_vars

\* no call of update_path is under way
Quiescent == \A t \in Threads : race_pc[t] \in {"idle", "done"}

\* the persisted path names a directory that exists and holds the format file
\* of the record
PathHoldsFormat ==
    /\ RaceDirExists(race_dirs, race_db.path)
    /\ \E x \in race_files : x[1] = race_db.path

\* C28 (as claimed): when the calls of update_path for a record run one after
\* another, after each call the persisted path names an existing directory
\* that holds the format file of the record.
C28_SerializedCallsKeepFiles ==
    (~race_hist.overlap /\ Quiescent) => PathHoldsFormat

\* C28 (amended): for a record whose persisted path was not empty, when the
\* calls of update_path run one after another, after each call the persisted
\* path names an existing directory that holds the format file of the record,
\* under the persisted stem.
C28_SerializedCallsKeepFilesOfPlacedRecord ==
    (~race_hist.overlap /\ Quiescent /\ race_hist.start # NoPath)
       => /\ PathHoldsFormat
          /\ <<race_db.path, race_db.fname>> \in race_files

\* two calls with different titles have run at the same time on a record that
\* was in its directory, and both have returned: the persisted path names a
\* directory that does not exist or that does not hold the format file
C28_Witness ==
    /\ race_hist.overlap
    /\ race_hist.start # NoPath
    /\ \A t \in Threads : race_pc[t] = "done"
    /\ ~PathHoldsFormat


\* The serialized half of C28 with the failures update_path can meet: a call
\* for a record that is in the directory its persisted path names, with every
\* format file, leaves it so, whether it returns or raises.
C28_SequentialCallKeepsFormats ==
    [][\A b \in Books :
          (Updated(b) /\ dbPath[b] # <<>> /\ DirExists(FS(dirs, files), dbPath[b])
              /\ \A fmt \in DOMAIN dbFmt[b] : FormatAvailable(files, dbPath[b], fmt))
             => /\ DirExists(FS(dirs', files'), dbPath'[b])
                /\ \A fmt \in DOMAIN dbFmt'[b] : FormatAvailable(files', dbPath'[b], fmt)
      ]_vars


(***************************************************************************)
(*                      Further properties of rmtree                       *)
(***************************************************************************)
\* C29: no call of update_path or remove_books deletes the library directory,
\* and DB.rmtree asked to delete the library directory does nothing, also when
\* it is asked as the parent of a record's directory that has just been
\* deleted.
C29_LibraryRootNeverDeleted ==
    /\ \A d \in last.dels : d.path # <<>>
    /\ \A permanent \in BOOLEAN :
          /\ rmtree(FS(dirs, files), <<>>, permanent) = <<FS(dirs, files), {}>>
          /\ \A top \in {d \in DOMAIN dirs : Len(d) = 1} :
                \E r1 \in {rmtree(FS(dirs, files), top, permanent)} :
                   /\ r1[2] # {}
                   /\ rmtree(r1[1], Parent(top), permanent) = <<r1[1], {}>>

\* update_path or remove_books has deleted the directory of a record and then
\* the directory of its author, which was left empty; the directories of
\* another record are still there
C29_Witness ==
    /\ last.op \in {"update_path", "remove_books"}
    /\ \E d \in last.dels : Len(d.path) = 1
    /\ \E d \in last.dels : Len(d.path) = 2
    /\ DOMAIN dirs # {}
    /\ DOMAIN files # {}


(***************************************************************************)
(*                   Properties of the format queries                      *)
(***************************************************************************)
\* the file systems has_format, format_metadata and format_hash leave
Queried(F, fmt, fname, path) ==
    { has_format(F, fmt, fname, path).fs, format_metadata(F, fmt, fname, path).fs,
      format_hash(F, fmt, fname, path).fs }

\* another file of the format is in the directory of the record
OtherFileOfFormat(F, fmt, fname, path) ==
    Candidates(F, path, LowerFmt(fmt)) \ {<<PathKey(path), FileKey(FileName(fname, LowerFmt(fmt)))>>} # {}

====
